---------------------------- MODULE Spec2Model ----------------------------
(***************************************************************************)
(* Model of the docx-to-srt converter: the subtitle segmentation engine    *)
(* (src/src/text_processor.py), the synthetic timestamp assignment and the *)
(* timestamp formatter (src/src/timestamp_generator.py), the document      *)
(* pipeline (src/src/converter.py) and the audio pipeline                  *)
(* (src/src/audio_processor.py).                                           *)
(*                                                                         *)
(* A Python str is modelled as a sequence of one-character strings, so     *)
(* that len, slicing, find, split and the regular expressions of the code  *)
(* are computed character by character.                                    *)
(***************************************************************************)
EXTENDS Integers, Sequences, FiniteSets, TLC

VARIABLES
    pc,                 \* position in the running routine
    text,               \* split_text: the input text
    paragraphs,         \* split_text: the list of paragraphs (mutable)
    pidx,               \* split_text: index (0-based) of the paragraph loop
    segments,           \* the cue list built by split_text / handed to the passes
    i,                  \* loop index (0-based) of the running pass
    processed_segments, \* _post_process_segments: output of the merge loop
    result,             \* value returned by the routine
    timestamps,         \* generate_timestamps: the (start, end) pairs, in ms
    start_time,         \* generate_timestamps: running start time, in ms
    call,               \* arguments of a direct call of one routine
    written             \* the output path holds a file written by the conversion

vars == <<pc, text, paragraphs, pidx, segments, i, processed_segments,
          result, timestamps, start_time, call, written>>

(***************************************************************************)
(* Characters and the str primitives the code uses.                        *)
(***************************************************************************)
NL == "\n"
SP == " "

\* str.strip / str.split / \s : the whitespace of the modelled alphabet
IsSpace(c) == c \in {SP, NL}

\* the class [.!?;:] of the regular expressions
SentencePunct == {".", "!", "?", ";", ":"}

\* the class [\w\s-] : everything of the modelled alphabet but punctuation
IsNameChar(c) == c \notin {".", ",", "!", "?", ";", ":"}

Max2(a, b) == IF a >= b THEN a ELSE b
Abs(x) == IF x < 0 THEN -x ELSE x

\* c * n
Rep(c, n) == [k \in 1..n |-> c]

\* s[a:b] of Python for 0 <= a, b (0-based, b exclusive)
Slice(s, a, b) == SubSeq(s, a + 1, IF b > Len(s) THEN Len(s) ELSE b)

\* the elements of a finite set of integers, in increasing order
Sorted(S) ==
    [w \in 1..Cardinality(S) |->
        CHOOSE k \in S : Cardinality({j \in S : j < k}) = w - 1]

\* least element of a non-empty set of integers
Least(S) == CHOOSE k \in S : \A j \in S : k <= j

\* index of the first non-whitespace character at or after k, else Len(s) + 1
FirstNonSpace(s, k) ==
    LET ns == {j \in k..Len(s) : ~IsSpace(s[j])}
    IN IF ns = {} THEN Max2(k, Len(s) + 1) ELSE Least(ns)

\* index of the last non-whitespace character at or before k, else 0
LastNonSpace(s, k) ==
    LET ns == {j \in 1..k : ~IsSpace(s[j]) /\ \A q \in (j + 1)..k : IsSpace(s[q])}
    IN IF ns = {} THEN 0 ELSE Least(ns)

\* str.strip()
Strip(s) == SubSeq(s, FirstNonSpace(s, 1), LastNonSpace(s, Len(s)))

\* str.split(): the maximal runs of non-whitespace characters
Split(s) ==
    LET starts == Sorted({k \in 1..Len(s) :
                            ~IsSpace(s[k]) /\ (k = 1 \/ IsSpace(s[k - 1]))})
        ends == Sorted({k \in 1..Len(s) :
                            ~IsSpace(s[k]) /\ (k = Len(s) \/ IsSpace(s[k + 1]))})
    IN [w \in 1..Len(starts) |-> SubSeq(s, starts[w], ends[w])]

\* the pieces of s between the positions cut[1] < cut[2] < ..., each cut
\* taking width[w] characters
Pieces(s, cut, width) ==
    [w \in 1..(Len(cut) + 1) |->
        SubSeq(s, IF w = 1 THEN 1 ELSE cut[w - 1] + width[w - 1],
                  IF w = Len(cut) + 1 THEN Len(s) ELSE cut[w] - 1)]

\* str.split(ch): the pieces between the occurrences of ch, empty ones kept
SplitOn(s, ch) ==
    LET cut == Sorted({k \in 1..Len(s) : s[k] = ch})
    IN Pieces(s, cut, [w \in 1..Len(cut) |-> 1])

\* sep.join(parts)
RECURSIVE Join(_, _)
Join(parts, sep) ==
    IF parts = <<>> THEN <<>>
    ELSE IF Len(parts) = 1 THEN parts[1]
    ELSE Join(SubSeq(parts, 1, Len(parts) - 1), sep) \o sep \o parts[Len(parts)]

JoinSp(words) == Join(words, <<SP>>)
JoinNL(lines) == Join(lines, <<NL>>)

\* str.find(ch, start): 0-based index of the first ch at or after start, else -1
Find(s, ch, start) ==
    LET from == IF start < 0 THEN Max2(0, Len(s) + start) ELSE start
        hits == {k \in from..(Len(s) - 1) : s[k + 1] = ch}
    IN IF hits = {} THEN -1 ELSE Least(hits)

\* str.rfind(ch): 0-based index of the last ch, else -1
RFind(s, ch) ==
    LET hits == {k \in 0..(Len(s) - 1) :
                    s[k + 1] = ch /\ \A q \in (k + 1)..(Len(s) - 1) : s[q + 1] # ch}
    IN IF hits = {} THEN -1 ELSE Least(hits)

\* ch in s, s.count(ch), s.endswith(ch), s.startswith(p)
Contains(s, ch) == \E k \in 1..Len(s) : s[k] = ch
Count(s, ch) == Cardinality({k \in 1..Len(s) : s[k] = ch})
EndsWith(s, ch) == Len(s) > 0 /\ s[Len(s)] = ch
StartsWith(s, p) == Len(s) >= Len(p) /\ SubSeq(s, 1, Len(p)) = p

\* s.replace('\n', ' ') and s.replace('\n', '')
NLToSpace(s) == [k \in 1..Len(s) |-> IF s[k] = NL THEN SP ELSE s[k]]
DropNL(s) == SelectSeq(s, LAMBDA c : c # NL)

\* the lines of a cue
Lines(seg) == SplitOn(seg, NL)

(***************************************************************************)
(* The regular expressions of text_processor.py.                           *)
(***************************************************************************)
\* length of the longest prefix of s made of [\w\s-] characters
NamePrefixLen(s) ==
    Least({k \in 0..Len(s) : k = Len(s) \/ ~IsNameChar(s[k + 1])})

\* re.match(r'^([\w\s-]+):(.+)', s): group 1 is greedy and ':' is not in its
\* class, so it is the longest name prefix; (.+) is the rest of the line
SpeakerMatch(s) ==
    LET n == NamePrefixLen(s)
        rest == Slice(s, n + 1, Len(s))
        eol == Find(rest, NL, 0)
        g2 == IF eol < 0 THEN rest ELSE Slice(rest, 0, eol)
    IN IF n >= 1 /\ n < Len(s) /\ s[n + 1] = ":" /\ g2 # <<>>
       THEN [matched |-> TRUE, g1 |-> Slice(s, 0, n), g2 |-> g2]
       ELSE [matched |-> FALSE, g1 |-> <<>>, g2 |-> <<>>]

\* re.match(r'^([\w\s-]+:)\s*(.+)', s): \s* is greedy and gives characters
\* back only when nothing is left for (.+), which never matches a newline
KeepSpeakerMatch(s) ==
    LET n == NamePrefixLen(s)
        after == n + 1                            \* 0-based index after ':'
        ws == FirstNonSpace(s, after + 1) - 1     \* 0-based end of the \s* run
        starts == {p \in after..ws : p < Len(s) /\ s[p + 1] # NL}
        p0 == CHOOSE p \in starts : \A q \in starts : q <= p
        rest == Slice(s, p0, Len(s))
        eol == Find(rest, NL, 0)
    IN IF n >= 1 /\ n < Len(s) /\ s[n + 1] = ":" /\ starts # {}
       THEN [matched |-> TRUE, g1 |-> Slice(s, 0, n + 1),
             g2 |-> IF eol < 0 THEN rest ELSE Slice(rest, 0, eol)]
       ELSE [matched |-> FALSE, g1 |-> <<>>, g2 |-> <<>>]

\* re.search(r'[.!?;:]$', s): $ also matches before one trailing newline
EndsWithPunct(s) ==
    \/ Len(s) >= 1 /\ s[Len(s)] \in SentencePunct
    \/ Len(s) >= 2 /\ s[Len(s)] = NL /\ s[Len(s) - 1] \in SentencePunct

\* re.search(r'\.\s*$', s)
EndsWithPeriod(s) ==
    LET k == LastNonSpace(s, Len(s)) IN k >= 1 /\ s[k] = "."

\* re.match(r'[.!?;:](?:\s|$)', p)
DelimMatch(p) ==
    /\ Len(p) >= 1
    /\ p[1] \in SentencePunct
    /\ (Len(p) = 1 \/ IsSpace(p[2]))

\* re.split(r'([.!?;:](?:\s|$))', s): the pieces between the delimiters,
\* alternating with the delimiters themselves (the group is captured)
ReSplitSentences(s) ==
    LET cut == Sorted({k \in 1..Len(s) :
                         s[k] \in SentencePunct /\ (k = Len(s) \/ IsSpace(s[k + 1]))})
        width == [w \in 1..Len(cut) |-> IF cut[w] = Len(s) THEN 1 ELSE 2]
        text_pieces == Pieces(s, cut, width)
    IN [w \in 1..(2 * Len(cut) + 1) |->
          IF w % 2 = 1 THEN text_pieces[(w + 1) \div 2]
          ELSE SubSeq(s, cut[w \div 2], cut[w \div 2] + width[w \div 2] - 1)]

\* re.sub(r'([.!?;:])(\s)', r'\1\2', s): every match is replaced by its own
\* two groups, which are the whole match, so the text comes back unchanged
FixPeriods(s) ==
    [k \in 1..Len(s) |->
        IF k > 1 /\ s[k - 1] \in SentencePunct /\ IsSpace(s[k]) THEN s[k] ELSE s[k]]

(***************************************************************************)
(* Program constants.                                                      *)
(***************************************************************************)
\* the default of every max_chars parameter
DefaultMaxChars == 42

(***************************************************************************)
(* TextProcessor._find_optimal_break_point                                 *)
(***************************************************************************)
\* " ".join(words[:k]) and " ".join(words[k:]) for a 0-based k
FirstPart(words, k) == JoinSp(SubSeq(words, 1, k))
SecondPart(words, k) == JoinSp(SubSeq(words, k + 1, Len(words)))

\* word.endswith('.') or '?' or '!' or ';' or ':'
EndsSentence(word) == Len(word) > 0 /\ word[Len(word)] \in SentencePunct

\* first loop: the indices at which a punctuation break is accepted
PunctBreaks(words, max_chars) ==
    {k \in 0..(Len(words) - 1) :
        /\ k > 0 /\ k < Len(words) - 1
        /\ EndsSentence(words[k + 1])
        /\ Len(FirstPart(words, k + 1)) <= max_chars
        /\ Len(SecondPart(words, k + 1)) <= max_chars}

\* second loop: current_length after word k, and what is left of total_text
FirstLineLength(words, k) == Len(FirstPart(words, k + 1))
SecondLineLength(words, k) == Len(JoinSp(words)) - FirstLineLength(words, k)

BalancedBreaks(words, max_chars) ==
    {k \in 0..(Len(words) - 1) :
        /\ FirstLineLength(words, k) <= max_chars
        /\ SecondLineLength(words, k) <= max_chars}

Balance(words, k) == Abs(FirstLineLength(words, k) - SecondLineLength(words, k))

FindOptimalBreakPoint(words, max_chars) ==
    LET pb == PunctBreaks(words, max_chars)
        bb == BalancedBreaks(words, max_chars)
    IN IF pb # {} THEN CHOOSE k \in pb : \A j \in pb : k <= j
       ELSE IF bb = {} THEN 0
       ELSE \* "balance < best_balance": the first index of the least balance
            CHOOSE k \in bb :
                \A j \in bb : \/ Balance(words, k) < Balance(words, j)
                              \/ Balance(words, k) = Balance(words, j) /\ k <= j

(***************************************************************************)
(* TextProcessor._break_into_two_lines                                     *)
(***************************************************************************)
\* word.endswith('.') or ',' or ';' or ':' (the natural break of this routine)
EndsNatural(word) == Len(word) > 0 /\ word[Len(word)] \in {".", ",", ";", ":"}

NaturalBreaks(words, max_chars) ==
    {k \in 0..(Len(words) - 2) :
        /\ EndsNatural(words[k + 1])
        /\ Len(FirstPart(words, k + 1)) <= max_chars
        /\ Len(SecondPart(words, k + 1)) <= max_chars}

\* len(line) + len(word) + (1 if line else 0) <= max_chars
Fits(line, word, max_chars) ==
    Len(line) + Len(word) + (IF line # <<>> THEN 1 ELSE 0) <= max_chars

\* line += " " + word if line else word
AddWord(line, word) == IF line # <<>> THEN line \o <<SP>> \o word ELSE word

\* segment = current_line1; if current_line2: segment += "\n" + current_line2
TwoLines(l1, l2) == IF l2 # <<>> THEN l1 \o <<NL>> \o l2 ELSE l1

\* the loop "for word in words" of the long-text branch and what follows it
RECURSIVE GreedyFill(_, _, _, _, _, _)
GreedyFill(words, k, l1, l2, res, max_chars) ==
    IF k > Len(words)
    THEN (IF l1 # <<>> \/ l2 # <<>> THEN Append(res, TwoLines(l1, l2)) ELSE res)
    ELSE LET word == words[k] IN
         IF Fits(l1, word, max_chars)
         THEN GreedyFill(words, k + 1, AddWord(l1, word), l2, res, max_chars)
         ELSE IF Fits(l2, word, max_chars)
         THEN GreedyFill(words, k + 1, l1, AddWord(l2, word), res, max_chars)
         ELSE IF l1 # <<>> /\ l2 # <<>>
         THEN GreedyFill(words, k + 1, word, <<>>, Append(res, TwoLines(l1, l2)), max_chars)
         ELSE GreedyFill(words, k + 1, word, <<>>, Append(res, l1), max_chars)

BreakIntoTwoLines(txt, max_chars) ==
    IF Len(txt) <= max_chars THEN <<txt>>
    ELSE
    LET t == FixPeriods(txt)
        words == Split(t)
        nb == NaturalBreaks(words, max_chars)
        k0 == CHOOSE k \in nb : \A j \in nb : k <= j
        best_idx == FindOptimalBreakPoint(words, max_chars)
    IN IF Len(t) <= max_chars * 2 /\ nb # {}
       THEN << FirstPart(words, k0 + 1) \o <<NL>> \o SecondPart(words, k0 + 1) >>
       ELSE IF Len(t) <= max_chars * 2 /\ best_idx > 0
       THEN << FirstPart(words, best_idx + 1) \o <<NL>> \o SecondPart(words, best_idx + 1) >>
       ELSE GreedyFill(words, 1, <<>>, <<>>, <<>>, max_chars)

(***************************************************************************)
(* TextProcessor._format_subtitle_text                                     *)
(***************************************************************************)
\* the loop that recombines the sentences with their punctuation
RECURSIVE FullSentences(_, _, _)
FullSentences(sentences, k, acc) ==
    IF k > Len(sentences) THEN acc
    ELSE IF k + 1 <= Len(sentences) /\ DelimMatch(sentences[k + 1])
         THEN FullSentences(sentences, k + 2, Append(acc, sentences[k] \o sentences[k + 1]))
         ELSE FullSentences(sentences, k + 1,
                            IF Strip(sentences[k]) # <<>>
                            THEN Append(acc, sentences[k]) ELSE acc)

\* the loop "for sentence in full_sentences" and the flush that follows it
RECURSIVE FillSegments(_, _, _, _, _)
FillSegments(full, k, cur, res, max_chars) ==
    IF k > Len(full)
    THEN (IF Strip(cur) # <<>> THEN Append(res, Strip(cur)) ELSE res)
    ELSE LET sentence == full[k] IN
         IF Len(cur) + Len(sentence) <= max_chars
         THEN FillSegments(full, k + 1, cur \o sentence, res, max_chars)
         ELSE IF cur # <<>> /\ Len(sentence) <= max_chars
         THEN FillSegments(full, k + 1, sentence, Append(res, Strip(cur)), max_chars)
         ELSE IF cur # <<>>
         THEN FillSegments(full, k + 1, <<>>,
                  (IF Strip(cur) # <<>> THEN Append(res, Strip(cur)) ELSE res)
                      \o BreakIntoTwoLines(sentence, max_chars),
                  max_chars)
         ELSE FillSegments(full, k + 1, cur,
                  res \o BreakIntoTwoLines(sentence, max_chars), max_chars)

\* "Standard processing", after both early splits were refused
SentenceSplit(txt, max_chars) ==
    FillSegments(FullSentences(ReSplitSentences(txt), 1, <<>>), 1, <<>>, <<>>, max_chars)

\* a boundary slip in the early return: a text of exactly max_chars is split
FitsOneLineStrict(txt, max_chars) == Len(txt) < max_chars

\* "if len(text) <= max_chars: return [text]"
FitsOneLine(txt, max_chars) == Len(txt) <= max_chars

\* the two places where _format_subtitle_text calls itself, on their own:
\* after a speaker tag with some content, and after the last period of the
\* text; first is the cue returned in front and rest the text of the
\* recursive call
Recursion(txt, max_chars, keep_speaker) ==
    LET sm == KeepSpeakerMatch(txt)
        speaker == sm.g1
        content == Strip(sm.g2)
        first_space_idx == Find(content, SP, max_chars - Len(speaker) - 1)
        sp_first == speaker \o <<SP>> \o Slice(content, 0, first_space_idx)
        sp_rest == Strip(Slice(content, first_space_idx + 1, Len(content)))
        period_idx == RFind(txt, ".")
        pd_first == Strip(Slice(txt, 0, period_idx + 1))
        pd_rest == Strip(Slice(txt, period_idx + 1, Len(txt)))
    IN IF /\ keep_speaker /\ sm.matched /\ first_space_idx > 0
          /\ Len(sp_first) <= max_chars /\ sp_rest # <<>>
       THEN [some |-> TRUE, first |-> sp_first, rest |-> sp_rest]
       ELSE IF /\ Contains(txt, ".") /\ ~EndsWith(txt, ".")
               /\ period_idx > 0 /\ period_idx < Len(txt) - 1
               /\ Len(pd_first) <= max_chars /\ pd_rest # <<>>
       THEN [some |-> TRUE, first |-> pd_first, rest |-> pd_rest]
       ELSE [some |-> FALSE, first |-> <<>>, rest |-> <<>>]

RECURSIVE FormatSubtitleText(_, _, _)
FormatSubtitleText(txt, max_chars, keep_speaker) ==
    IF FitsOneLine(txt, max_chars) THEN <<txt>>
    ELSE
    LET sm == KeepSpeakerMatch(txt)
        speaker == sm.g1
        content == Strip(sm.g2)
        first_space_idx == Find(content, SP, max_chars - Len(speaker) - 1)
        sp_first == speaker \o <<SP>> \o Slice(content, 0, first_space_idx)
        sp_rest == Strip(Slice(content, first_space_idx + 1, Len(content)))
        period_idx == RFind(txt, ".")
        pd_first == Strip(Slice(txt, 0, period_idx + 1))
        pd_rest == Strip(Slice(txt, period_idx + 1, Len(txt)))
    IN IF /\ keep_speaker /\ sm.matched /\ first_space_idx > 0
          /\ Len(sp_first) <= max_chars /\ sp_rest # <<>>
       THEN \* the remainder is formatted with the default arguments
            <<sp_first>> \o FormatSubtitleText(sp_rest, DefaultMaxChars, FALSE)
       ELSE IF /\ Contains(txt, ".") /\ ~EndsWith(txt, ".")
               /\ period_idx > 0 /\ period_idx < Len(txt) - 1
               /\ Len(pd_first) <= max_chars /\ pd_rest # <<>>
       THEN <<pd_first>> \o FormatSubtitleText(pd_rest, DefaultMaxChars, FALSE)
       ELSE SentenceSplit(txt, max_chars)

(***************************************************************************)
(* TextProcessor._try_combine_segments                                     *)
(***************************************************************************)
\* the two kinds of return value: a combined cue, or None
Some(v) == [some |-> TRUE, value |-> v]
None == [some |-> FALSE, value |-> <<>>]

\* "if combined:" : None and the empty string are both false
Truthy(r) == r.some /\ r.value # <<>>

TryCombineSegments(segment1, segment2, max_chars, allow_longer) ==
    LET total_length == Len(NLToSpace(segment1)) + Len(NLToSpace(segment2)) + 1
        lines == Lines(segment1)
        words == Split(segment1 \o <<SP>> \o segment2)
        best_idx == FindOptimalBreakPoint(words, max_chars)
        first_line == FirstPart(words, best_idx + 1)
        second_line == SecondPart(words, best_idx + 1)
    IN IF EndsWith(segment1, ":") /\ Len(Split(segment1)) = 1
       THEN Some(segment1 \o <<SP>> \o segment2)
       ELSE IF EndsWith(Strip(segment1), ".") THEN None
       \* total_length <= max_chars * 2.2 if allow_longer else max_chars * 2
       ELSE IF ~(IF allow_longer THEN 10 * total_length <= 22 * max_chars
                                 ELSE total_length <= 2 * max_chars)
       THEN None
       ELSE IF Contains(segment1, NL)
       THEN IF Len(lines) >= 2
            THEN \* len(lines[0]) + len(lines[1]) <= max_chars * 1.5
                 IF /\ 2 * (Len(lines[1]) + Len(lines[2])) <= 3 * max_chars
                    /\ Len(lines[2]) + Len(segment2) + 1 <= max_chars
                 THEN Some(lines[1] \o <<NL>> \o lines[2] \o <<SP>> \o segment2)
                 ELSE None
            ELSE IF Len(segment2) <= max_chars
                 THEN Some(segment1 \o <<NL>> \o segment2)
                 ELSE None
       ELSE IF Len(segment1) + Len(segment2) <= max_chars
       THEN Some(segment1 \o <<SP>> \o segment2)
       ELSE IF Len(first_line) <= max_chars /\ Len(second_line) <= max_chars
       THEN Some(first_line \o <<NL>> \o second_line)
       ELSE None

(***************************************************************************)
(* TextProcessor.split_text                                                *)
(***************************************************************************)
\* list.pop(k) and list.insert(k, xs...) for a 0-based k
Pop(list, k) == SubSeq(list, 1, k) \o SubSeq(list, k + 2, Len(list))
Put(list, k, v) == [list EXCEPT ![k + 1] = v]

\* a slip in the filter: every segment kept, the blank ones too
NonBlankKeepAll(list) == list

\* [seg for seg in segments if seg.strip()]
NonBlank(list) == SelectSeq(list, LAMBDA seg : Strip(seg) # <<>>)

\* the branch "speaker without content": the first non-empty paragraph after
\* paragraphs.index(paragraph) is joined to the speaker unless it is tagged
SpeakerAlone(paras, paragraph, speaker) ==
    LET first == Least({k \in 0..(Len(paras) - 1) : paras[k + 1] = paragraph})
        later == {k \in (first + 1)..(Len(paras) - 1) : Strip(paras[k + 1]) # <<>>}
        next_idx == Least(later)
        next_para == Strip(paras[next_idx + 1])
    IN IF later # {} /\ ~SpeakerMatch(next_para).matched
       THEN [parts |-> FormatSubtitleText(speaker \o <<SP>> \o next_para,
                                           DefaultMaxChars, TRUE),
             paragraphs |-> Put(paras, next_idx, <<>>)]
       ELSE [parts |-> <<speaker>>, paragraphs |-> paras]

\* a slip in the skip of a blank paragraph: "break" for "continue", which
\* leaves the paragraphs after it unread
SkipBlankBreak(paras) == [parts |-> <<>>, paragraphs |-> [k \in 1..Len(paras) |-> <<>>]]

\* "if not paragraph.strip(): continue": a blank paragraph adds nothing
SkipBlank(paras) == [parts |-> <<>>, paragraphs |-> paras]

\* one iteration of "for paragraph in paragraphs"
ParagraphBody(paras, paragraph) ==
    LET stripped == Strip(paragraph)
        sm == SpeakerMatch(stripped)
        speaker == Strip(sm.g1) \o <<":">>
        content == Strip(sm.g2)
    IN IF stripped = <<>> THEN SkipBlank(paras)
       ELSE IF sm.matched /\ content # <<>>
       THEN [parts |-> FormatSubtitleText(speaker \o <<SP>> \o content,
                                           DefaultMaxChars, TRUE),
             paragraphs |-> paras]
       ELSE IF sm.matched THEN SpeakerAlone(paras, paragraph, speaker)
       ELSE [parts |-> FormatSubtitleText(stripped, DefaultMaxChars, FALSE),
             paragraphs |-> paras]

\* a slip in the set-up of a call: the list of segments is not created anew
\* (a mutable default argument, or an attribute of the processor), so the
\* cues of the call before are still in it
SplitParagraphsKeepSegments ==
    /\ pc = "split_text"
    /\ paragraphs' = SplitOn(Strip(text), NL)
    /\ pidx' = 0
    /\ segments' = segments
    /\ pc' = "paragraphs"
    /\ UNCHANGED <<text, i, processed_segments, result, timestamps, start_time, call, written>>

\* segments = []; paragraphs = text.strip().split('\n')
SplitParagraphs ==
    /\ pc = "split_text"
    /\ paragraphs' = SplitOn(Strip(text), NL)
    /\ pidx' = 0
    /\ segments' = <<>>
    /\ pc' = "paragraphs"
    /\ UNCHANGED <<text, i, processed_segments, result, timestamps, start_time, call, written>>

FormatParagraph ==
    /\ pc = "paragraphs"
    /\ pidx < Len(paragraphs)
    /\ LET r == ParagraphBody(paragraphs, paragraphs[pidx + 1])
       IN /\ segments' = segments \o r.parts
          /\ paragraphs' = r.paragraphs
    /\ pidx' = pidx + 1
    /\ UNCHANGED <<pc, text, i, processed_segments, result, timestamps, start_time, call, written>>

\* the filter of empty segments and the entry into _post_process_segments
FilterSegments ==
    /\ pc = "paragraphs"
    /\ pidx >= Len(paragraphs)
    /\ segments' = NonBlank(segments)
    /\ i' = 0
    /\ pc' = "first_pass"
    /\ UNCHANGED <<text, paragraphs, pidx, processed_segments, result, timestamps,
                   start_time, call, written>>

(***************************************************************************)
(* TextProcessor._post_process_segments (the definition in force: the      *)
(* second one of the class body replaces the first)                        *)
(***************************************************************************)
\* current.endswith(':') and len(current.split()) <= 2
IsSpeakerOnly(current) == EndsWith(current, ":") /\ Len(Split(current)) <= 2

\* next_word_count <= 2 or (next_segment.strip().endswith('.') and next_word_count <= 4)
IsVeryShort(next_segment) ==
    LET next_word_count == Len(Split(next_segment))
    IN \/ next_word_count <= 2
       \/ EndsWith(Strip(next_segment), ".") /\ next_word_count <= 4

\* abs(len(" ".join(words[:j])) - len(" ".join(words[j:])))
BreakBalance(words, j) == Abs(Len(FirstPart(words, j)) - Len(SecondPart(words, j)))

\* "Find balanced break point": best_break starts at len(words) // 2 and moves
\* to each j in turn whose two parts fit and are strictly better balanced
BalancedBreak(words, max_chars) ==
    LET init == Len(words) \div 2
        better == {j \in 1..(Len(words) - 1) :
                     /\ Len(FirstPart(words, j)) <= max_chars
                     /\ Len(SecondPart(words, j)) <= max_chars
                     /\ BreakBalance(words, j) < BreakBalance(words, init)}
    IN IF better = {} THEN init
       ELSE CHOOSE j \in better :
                \A q \in better : \/ BreakBalance(words, j) < BreakBalance(words, q)
                                  \/ BreakBalance(words, j) = BreakBalance(words, q) /\ j <= q

\* the cue that replaces current when a very short next_segment is merged in
MergeShort(current, next_segment, max_chars) ==
    LET lines == Lines(current)
        words == Split(NLToSpace(current) \o <<SP>> \o next_segment)
        best_break == BalancedBreak(words, max_chars)
    IN IF Contains(current, NL)
       THEN IF Len(lines[2]) + Len(next_segment) + 1 <= max_chars
            THEN lines[1] \o <<NL>> \o lines[2] \o <<SP>> \o next_segment
            ELSE FirstPart(words, best_break) \o <<NL>> \o SecondPart(words, best_break)
       ELSE IF Len(current) + Len(next_segment) + 1 <= max_chars
       THEN current \o <<SP>> \o next_segment
       ELSE current \o <<NL>> \o next_segment

\* a slip in the restart of the first pass: "continue" is reached before the
\* bare tag is merged with the next cue, so the same cue is met again
FirstPassBodyNoMerge(list, k, max_chars) ==
    LET current == list[k + 1]
        next_segment == list[k + 2]
    IN IF IsSpeakerOnly(current)
       THEN [segments |-> list, i |-> k]
       ELSE IF IsVeryShort(next_segment)
       THEN [segments |-> Pop(Put(list, k, MergeShort(current, next_segment, max_chars)),
                              k + 1),
             i |-> k]
       ELSE [segments |-> list, i |-> k + 1]

\* one iteration of the first pass: what becomes of the list and of i
FirstPassBody(list, k, max_chars) ==
    LET current == list[k + 1]
        next_segment == list[k + 2]
    IN IF IsSpeakerOnly(current)
       THEN [segments |-> Pop(Put(list, k, current \o <<SP>> \o next_segment), k + 1),
             i |-> k]
       ELSE IF IsVeryShort(next_segment)
       THEN [segments |-> Pop(Put(list, k, MergeShort(current, next_segment, max_chars)),
                              k + 1),
             i |-> k]
       ELSE [segments |-> list, i |-> k + 1]

FirstPassStep ==
    /\ pc = "first_pass"
    /\ i < Len(segments) - 1
    /\ LET r == FirstPassBody(segments, i, DefaultMaxChars)
       IN /\ segments' = r.segments
          /\ i' = r.i
    /\ UNCHANGED <<pc, text, paragraphs, pidx, processed_segments, result, timestamps,
                   start_time, call, written>>

FirstPassDone ==
    /\ pc = "first_pass"
    /\ i >= Len(segments) - 1
    /\ processed_segments' = <<>>
    /\ i' = 0
    /\ pc' = "merge_pass"
    /\ UNCHANGED <<text, paragraphs, pidx, segments, result, timestamps, start_time, call, written>>

\* the lines after the second, non-blank ones only, each inserted at i + 1:
\* the last one inserted comes first
RECURSIVE Reversed(_)
Reversed(list) ==
    IF list = <<>> THEN <<>>
    ELSE Append(Reversed(SubSeq(list, 2, Len(list))), list[1])

Overflow(lines) == Reversed(NonBlank(SubSeq(lines, 3, Len(lines))))

\* one iteration of the "standard processing" loop
MergePassBody(list, k, processed, max_chars) ==
    LET raw == list[k + 1]
        lines == Lines(raw)
        many == Count(raw, NL) > 1
        current_segment == IF many THEN lines[1] \o <<NL>> \o lines[2] ELSE raw
        segs == IF many
                THEN SubSeq(list, 1, k + 1) \o Overflow(lines)
                         \o SubSeq(list, k + 2, Len(list))
                ELSE list
        has_next == k + 1 < Len(segs)
        next_segment == segs[k + 2]
        next_word_count == Len(Split(next_segment))
        next_char_count == Len(next_segment)
        short == TryCombineSegments(current_segment, next_segment, max_chars, FALSE)
        longer == TryCombineSegments(current_segment, next_segment, max_chars, TRUE)
    IN IF /\ has_next
          /\ (next_word_count <= 5 \/ next_char_count <= 25)
          /\ ~EndsWithPeriod(current_segment)
          /\ Truthy(short)
       THEN [segments |-> segs, processed |-> Append(processed, short.value), i |-> k + 2]
       ELSE IF /\ has_next
               /\ ~EndsWithPunct(Strip(DropNL(current_segment)))
               /\ Truthy(longer)
       THEN [segments |-> segs, processed |-> Append(processed, longer.value), i |-> k + 2]
       ELSE [segments |-> segs, processed |-> Append(processed, current_segment),
             i |-> k + 1]

MergePassStep ==
    /\ pc = "merge_pass"
    /\ i < Len(segments)
    /\ LET r == MergePassBody(segments, i, processed_segments, DefaultMaxChars)
       IN /\ segments' = r.segments
          /\ processed_segments' = r.processed
          /\ i' = r.i
    /\ UNCHANGED <<pc, text, paragraphs, pidx, result, timestamps, start_time, call, written>>

\* "Fix period dropping to next line"
FixPeriod(segment) ==
    LET lines == Lines(segment)
    IN IF /\ Contains(segment, NL) /\ Contains(segment, ".")
          /\ StartsWith(lines[2], <<".", SP>>)
       THEN (lines[1] \o <<".">>) \o <<NL>> \o Strip(Slice(lines[2], 2, Len(lines[2])))
       ELSE segment

\* the final pass over processed_segments and the return of split_text
FinalPass ==
    /\ pc = "merge_pass"
    /\ i >= Len(segments)
    /\ result' = [k \in 1..Len(processed_segments) |-> FixPeriod(processed_segments[k])]
    /\ pc' = "done"
    /\ UNCHANGED <<text, paragraphs, pidx, segments, i, processed_segments, timestamps,
                   start_time, call, written>>

\* split_text as a function of its input
RECURSIVE ParagraphLoop(_, _, _)
ParagraphLoop(paras, k, segs) ==
    IF k >= Len(paras) THEN segs
    ELSE LET r == ParagraphBody(paras, paras[k + 1])
         IN ParagraphLoop(r.paragraphs, k + 1, segs \o r.parts)

RECURSIVE FirstPassLoop(_, _, _)
FirstPassLoop(list, k, max_chars) ==
    IF k >= Len(list) - 1 THEN list
    ELSE LET r == FirstPassBody(list, k, max_chars)
         IN FirstPassLoop(r.segments, r.i, max_chars)

RECURSIVE MergePassLoop(_, _, _, _)
MergePassLoop(list, k, processed, max_chars) ==
    IF k >= Len(list) THEN processed
    ELSE LET r == MergePassBody(list, k, processed, max_chars)
         IN MergePassLoop(r.segments, r.i, r.processed, max_chars)

PostProcessSegments(list, max_chars) ==
    LET processed == MergePassLoop(FirstPassLoop(list, 0, max_chars), 0, <<>>, max_chars)
    IN [k \in 1..Len(processed) |-> FixPeriod(processed[k])]

SplitText(txt) ==
    PostProcessSegments(NonBlank(ParagraphLoop(SplitOn(Strip(txt), NL), 0, <<>>)),
                        DefaultMaxChars)

(***************************************************************************)
(* TimestampGenerator.generate_timestamps.  Times are in milliseconds: the *)
(* code's floats are multiples of 0.5 s, which binary floating point holds  *)
(* exactly, so the integer arithmetic below is the code's arithmetic.       *)
(***************************************************************************)
\* "* 0.5": the duration of one word, in milliseconds
WordMs == 500

\* a slip in the word count: split(' ') counts the pieces between single
\* spaces, so a line break inside a cue joins two words
EndTimeSplitOnSpace(start, segment) == start + Len(SplitOn(segment, SP)) * WordMs

\* end_time = start_time + len(segment.split()) * 0.5
EndTime(start, segment) == start + Len(Split(segment)) * WordMs

\* one iteration of "for segment in segments"
TimestampStep ==
    /\ pc = "generate_timestamps"
    /\ i < Len(segments)
    /\ LET end_time == EndTime(start_time, segments[i + 1])
       IN /\ timestamps' = Append(timestamps, <<start_time, end_time>>)
          /\ start_time' = end_time
    /\ i' = i + 1
    /\ UNCHANGED <<pc, text, paragraphs, pidx, segments, processed_segments, result, call, written>>

\* return timestamps
TimestampsDone ==
    /\ pc = "generate_timestamps"
    /\ i >= Len(segments)
    /\ result' = timestamps
    /\ pc' = "done"
    /\ UNCHANGED <<text, paragraphs, pidx, segments, i, processed_segments, timestamps,
                   start_time, call, written>>

(***************************************************************************)
(* Direct calls of the formatting routines.                                *)
(***************************************************************************)
FormatCall ==
    /\ pc = "call"
    /\ call.fn = "format_subtitle_text"
    /\ result' = FormatSubtitleText(call.text, call.max_chars, call.keep_speaker)
    /\ pc' = "done"
    /\ UNCHANGED <<text, paragraphs, pidx, segments, i, processed_segments, timestamps,
                   start_time, call, written>>

BreakCall ==
    /\ pc = "call"
    /\ call.fn = "break_into_two_lines"
    /\ result' = BreakIntoTwoLines(call.text, call.max_chars)
    /\ pc' = "done"
    /\ UNCHANGED <<text, paragraphs, pidx, segments, i, processed_segments, timestamps,
                   start_time, call, written>>

SplitTextCall ==
    /\ pc = "call"
    /\ call.fn = "split_text"
    /\ result' = SplitText(call.text)
    /\ pc' = "done"
    /\ UNCHANGED <<text, paragraphs, pidx, segments, i, processed_segments, timestamps,
                   start_time, call, written>>

(***************************************************************************)
(* Inputs.                                                                 *)
(***************************************************************************)
\* bounds of the enumerated inputs
MaxTokens == 4
MaxCues == 3
MaxCueWords == 6
SmallMaxChars == 10

\* all sequences over S of length 1..n
RECURSIVE SeqsUpTo(_, _)
SeqsUpTo(S, n) ==
    IF n = 0 THEN {}
    ELSE LET shorter == SeqsUpTo(S, n - 1)
         IN {<<x>> : x \in S} \cup shorter \cup {Append(q, x) : q \in shorter, x \in S}

\* the tokens texts are written with: a speaker tag, a short word, a word
\* followed by a comma, a long word, a long word that ends a sentence, a word
\* longer than a line
TagToken == <<"A", "l", ":">>
ShortToken == <<"h", "i">>
LongToken == Rep("a", 20)
SentenceToken == Append(Rep("b", 19), ".")
CommaToken == <<"o", "k", ",">>
HugeToken == Rep("x", DefaultMaxChars + 3)
Tokens == {TagToken, ShortToken, CommaToken, LongToken, SentenceToken, HugeToken}

\* the same kinds of token at the scale of SmallMaxChars
SmallTokens == {TagToken, ShortToken, Rep("a", 4), <<"b", "b", "b", ".">>,
                Rep("x", SmallMaxChars + 2)}

AliceTag ==
    <<"A","l","i","c","e",":">>
HelloThere ==
    <<"H","e","l","l","o"," ","t","h","e","r","e",","," ","h","o","w"," ","a","r","e"," ","y","o","u"," ","d","o","i","n","g"," ","t","o","d","a","y","?">>
AliceShort ==
    <<"A","l","i","c","e",":"," ","T","h","i","s"," ","i","s"," ","a"," ","s","h","o","r","t"," ","l","i","n","e",".">>
SmithTag ==
    <<"M","r"," ","J","o","h","n"," ","S","m","i","t","h",":">>
NotRight ==
    <<"I"," ","d","o"," ","n","o","t"," ","t","h","i","n","k"," ","t","h","a","t"," ","t","h","i","s"," ","i","s"," ","r","i","g","h","t"," ","a","t"," ","a","l","l",".">>
SaidBob ==
    <<"w","e","l","l"," ","t","h","e","n"," ","s","a","i","d"," ","B","o","b",":">>

\* texts of the specification's examples and of the speaker-tag cases
ExampleTexts ==
    { AliceShort,
      AliceTag,
      AliceTag \o <<NL>> \o HelloThere,
      AliceTag \o <<SP>> \o HelloThere,
      SmithTag \o <<NL>> \o NotRight,
      SaidBob \o <<NL>> \o NotRight,
      NotRight \o <<NL>> \o AliceTag }

\* paragraphs: up to MaxTokens tokens separated by single spaces
Paragraphs == {JoinSp(q) : q \in SeqsUpTo(Tokens, MaxTokens)}
SmallParagraphs == {JoinSp(q) : q \in SeqsUpTo(SmallTokens, MaxTokens)}

\* texts: the same with line breaks among the tokens
\* texts with blank paragraphs between, before and after the other paragraphs
BlankParagraphTexts ==
    { NotRight \o <<NL, SP, NL>> \o HelloThere,
      <<NL, SP>> \o NotRight \o <<NL, NL, SP, SP, NL>> \o AliceShort \o <<NL, SP, NL>>,
      AliceTag \o <<NL, NL>> \o HelloThere }

\* paragraphs of five words that take more than two lines
FiveWordTexts ==
    { JoinSp(<<ShortToken, LongToken, LongToken, ShortToken, LongToken>>),
      JoinSp(<<SentenceToken, ShortToken, LongToken, SentenceToken, ShortToken>>) }

Texts ==
    {JoinSp(q) : q \in SeqsUpTo(Tokens \cup {<<NL>>}, MaxTokens)}
        \cup ExampleTexts \cup BlankParagraphTexts \cup FiveWordTexts

\* cues handed to generate_timestamps: 1..MaxCueWords words, on one or two lines
WordsCue(n) == JoinSp([k \in 1..n |-> ShortToken])
Cues == {WordsCue(n) : n \in 1..MaxCueWords}
            \cup {WordsCue(n) \o <<NL>> \o WordsCue(2) : n \in {2, MaxCueWords}}

CueLists == {<<>>} \cup SeqsUpTo(Cues, MaxCues)

(***************************************************************************)
(* Specifications.                                                         *)
(***************************************************************************)
\* the value of call when no routine is called directly
NoCall == [fn |-> "none", text |-> <<>>, max_chars |-> DefaultMaxChars,
           keep_speaker |-> FALSE]

\* split_text on a text
Init ==
    /\ pc = "split_text"
    /\ text \in Texts
    /\ paragraphs = <<>>
    /\ pidx = 0
    /\ segments = <<>>
    /\ i = 0
    /\ processed_segments = <<>>
    /\ result = <<>>
    /\ timestamps = <<>>
    /\ start_time = 0
    /\ call = NoCall
    /\ written = FALSE

Next ==
    \/ SplitParagraphs
    \/ FormatParagraph
    \/ FilterSegments
    \/ FirstPassStep
    \/ FirstPassDone
    \/ MergePassStep
    \/ FinalPass

Spec == Init /\ [][Next]_vars


\* generate_timestamps on a list of cues
InitTimestamps ==
    /\ pc = "generate_timestamps"
    /\ segments \in CueLists
    /\ text = <<>>
    /\ paragraphs = <<>>
    /\ pidx = 0
    /\ i = 0
    /\ processed_segments = <<>>
    /\ result = <<>>
    /\ timestamps = <<>>
    /\ start_time = 0
    /\ call = NoCall
    /\ written = FALSE

NextTimestamps == TimestampStep \/ TimestampsDone

SpecTimestamps == InitTimestamps /\ [][NextTimestamps]_vars

\* one direct call of _format_subtitle_text, _break_into_two_lines or split_text
Calls ==
    [fn : {"format_subtitle_text"}, text : Paragraphs \cup ExampleTexts,
     max_chars : {DefaultMaxChars}, keep_speaker : BOOLEAN]
    \cup [fn : {"format_subtitle_text"}, text : SmallParagraphs,
          max_chars : {SmallMaxChars}, keep_speaker : BOOLEAN]
    \cup [fn : {"break_into_two_lines"}, text : Paragraphs \cup ExampleTexts,
          max_chars : {DefaultMaxChars}, keep_speaker : {FALSE}]
    \cup [fn : {"break_into_two_lines"}, text : SmallParagraphs,
          max_chars : {SmallMaxChars}, keep_speaker : {FALSE}]
    \cup [fn : {"split_text"}, text : ExampleTexts,
          max_chars : {DefaultMaxChars}, keep_speaker : {FALSE}]

InitCall ==
    /\ pc = "call"
    /\ call \in Calls
    /\ text = <<>>
    /\ paragraphs = <<>>
    /\ pidx = 0
    /\ segments = <<>>
    /\ i = 0
    /\ processed_segments = <<>>
    /\ result = <<>>
    /\ timestamps = <<>>
    /\ start_time = 0
    /\ written = FALSE

NextCall == FormatCall \/ BreakCall \/ SplitTextCall

SpecCall == InitCall /\ [][NextCall]_vars

(***************************************************************************)
(* Vocabulary of the properties.                                           *)
(***************************************************************************)
\* the elements of a sequence
Range(q) == {q[k] : k \in 1..Len(q)}

\* the lines of all cues of a cue list
AllLines(cues) == UNION {Range(Lines(cue)) : cue \in Range(cues)}

\* a bare speaker tag: name characters followed by ':' and nothing else
IsTagOnly(p) ==
    /\ Len(p) >= 2
    /\ p[Len(p)] = ":"
    /\ \A k \in 1..(Len(p) - 1) : IsNameChar(p[k])
    /\ \E k \in 1..(Len(p) - 1) : ~IsSpace(p[k])

\* a paragraph that opens with a speaker tag and has content after it
IsTagged(p) == SpeakerMatch(p).matched /\ Strip(SpeakerMatch(p).g2) # <<>>

\* the speaker tag of a tagged paragraph
TagOf(p) == Strip(SpeakerMatch(p).g1) \o <<":">>

\* the non-empty paragraphs of a text, stripped
InputParagraphs(txt) ==
    LET ps == SplitOn(Strip(txt), NL)
    IN NonBlank([k \in 1..Len(ps) |-> Strip(ps[k])])

\* the number of whitespace-separated words of a cue
WordCount(s) ==
    Cardinality({k \in 1..Len(s) : ~IsSpace(s[k]) /\ (k = 1 \/ IsSpace(s[k - 1]))})

\* p occurs in s
IsInfix(p, s) == \E k \in 0..(Len(s) - Len(p)) : SubSeq(s, k + 1, k + Len(p)) = p

\* a line is within the budget, or is one token of the input that is itself
\* longer than the budget
LineAllowed(line, input, max_chars) ==
    \/ Len(line) <= max_chars
    \/ line \in Range(Split(input))

\* the text of a cue ends with a speaker tag: re.search(r'([\w\s-]+):\s*$', s)
EndsWithTag(s) ==
    LET k == LastNonSpace(s, Len(s))
    IN k >= 2 /\ s[k] = ":" /\ IsNameChar(s[k - 1])

SplitTextDone == pc = "done"
Called(fn) == pc = "done" /\ call.fn = fn

(***************************************************************************)
(* C1..C10                                                                 *)
(***************************************************************************)
\* C1: every cue returned by split_text has at most 2 lines and every line is
\* at most max_chars long, unless the line is a single input token that is
\* itself longer than max_chars.
C1_CuesWithinLimits ==
    SplitTextDone =>
        \A cue \in Range(result) :
            /\ Len(Lines(cue)) <= 2
            /\ \A line \in Range(Lines(cue)) : LineAllowed(line, text, DefaultMaxChars)

\* C2: when a tag-only paragraph is followed by a non-empty paragraph, no cue
\* of the output is exactly that tag, and some cue holds the tag followed by a
\* space and the text it was merged with.
C2_NoBareTagCue ==
    SplitTextDone =>
        LET ps == InputParagraphs(text)
        IN \A k \in 1..(Len(ps) - 1) :
              IsTagOnly(ps[k]) =>
                  /\ \A cue \in Range(result) : cue # ps[k]
                  /\ \E cue \in Range(result) : IsInfix(ps[k] \o <<SP>>, NLToSpace(cue))

\* C3: a tag-only paragraph followed by an untagged paragraph, the two
\* together longer than max_chars and at most 2 * max_chars, come out as one
\* cue that starts with the tag and has 2 lines of at most max_chars each;
\* "Alice:" and "Hello there, how are you doing today?" give
\* "Alice: Hello there, how are you doing" / "today?".
C3_TagAndParagraphInTwoLines ==
    SplitTextDone =>
        LET ps == InputParagraphs(text)
            total == Len(ps[1]) + 1 + Len(ps[2])
        IN /\ ( /\ Len(ps) = 2 /\ IsTagOnly(ps[1]) /\ ~IsTagged(ps[2])
                /\ total > DefaultMaxChars /\ total <= 2 * DefaultMaxChars )
              => /\ Len(result) = 1
                 /\ StartsWith(result[1], ps[1])
                 /\ Len(Lines(result[1])) = 2
                 /\ \A line \in Range(Lines(result[1])) : Len(line) <= DefaultMaxChars
           /\ text = AliceTag \o <<NL>> \o HelloThere
              => result = << SubSeq(AliceTag \o <<SP>> \o HelloThere, 1, 37)
                             \o <<NL>> \o SubSeq(HelloThere, 32, 37) >>

\* C4: a text of at most max_chars characters is returned by
\* _format_subtitle_text as one cue, the text itself, with no line break; and
\* split_text on "Alice: This is a short line." returns that one cue.
C4_ShortTextIsOneCue ==
    /\ ( /\ Called("format_subtitle_text")
         /\ Len(call.text) <= call.max_chars )
       => /\ result = <<call.text>>
          /\ ~Contains(result[1], NL)
    /\ ( /\ Called("split_text")
         /\ call.text = AliceShort )
       => result = <<AliceShort>>

\* C4 witness: a text of exactly max_chars characters came back as itself.
C4_Witness ==
    /\ Called("format_subtitle_text")
    /\ Len(call.text) = call.max_chars
    /\ Contains(call.text, SP)
    /\ result = <<call.text>>

\* C5: for a tagged paragraph with content, longer than max_chars and
\* formatted with keep_speaker, the first cue starts with the tag, holds some
\* of the content and is at most max_chars long, and no cue is the tag alone.
C5_TagStaysWithContent ==
    ( /\ Called("format_subtitle_text")
      /\ call.keep_speaker
      /\ IsTagged(call.text)
      /\ Len(call.text) > call.max_chars )
    => /\ result # <<>>
       /\ StartsWith(result[1], TagOf(call.text))
       /\ Len(result[1]) > Len(TagOf(call.text))
       /\ Len(result[1]) <= call.max_chars
       /\ \A cue \in Range(result) : cue # TagOf(call.text)

\* C6: a token longer than max_chars is cut into pieces of at most max_chars:
\* when the text holds such a token, every line _break_into_two_lines returns
\* is at most max_chars long and no returned cue is empty.
C6_LongTokenIsChunked ==
    ( /\ Called("break_into_two_lines")
      /\ \E word \in Range(Split(call.text)) : Len(word) > call.max_chars )
    => /\ \A line \in AllLines(result) : Len(line) <= call.max_chars
       /\ \A cue \in Range(result) : cue # <<>>

\* C7: every line of every cue _format_subtitle_text returns is bounded by
\* the max_chars it was called with (a single token longer than that aside),
\* the cues of the recursively formatted remainders included.
C7_MaxCharsEverywhere ==
    Called("format_subtitle_text") =>
        \A line \in AllLines(result) : LineAllowed(line, call.text, call.max_chars)

\* C8: when the last non-empty paragraph is a bare speaker tag, the last cue
\* of split_text's output is exactly that tag and the cues before it are the
\* cues of the text without that paragraph.
C8_TrailingTagStandsAlone ==
    SplitTextDone =>
        LET ps == InputParagraphs(text)
            n == Len(ps)
        IN (n >= 1 /\ IsTagOnly(ps[n])) =>
              /\ result # <<>>
              /\ result[Len(result)] = ps[n]
              /\ SubSeq(result, 1, Len(result) - 1)
                    = SplitText(JoinNL(SubSeq(ps, 1, n - 1)))

\* C9: no cue of the output that is followed by another cue ends with a
\* speaker tag.
C9_NoDanglingTag ==
    SplitTextDone =>
        \A k \in 1..(Len(result) - 1) : ~EndsWithTag(result[k])

\* C10: the synthetic timestamps are sequential: the first cue starts at 0,
\* every later cue starts at the end of the one before, and a cue lasts its
\* word count times 0.5 s; so starts and ends never decrease and
\* end >= start.  Cues of 4, 2 and 6 words get (0.0, 2.0), (2.0, 3.0),
\* (3.0, 6.0).
C10_SequentialTimestamps ==
    pc \in {"generate_timestamps", "done"} =>
        /\ Len(timestamps) = i
        /\ \A k \in 1..Len(timestamps) :
              /\ timestamps[k][1] = (IF k = 1 THEN 0 ELSE timestamps[k - 1][2])
              /\ timestamps[k][2] - timestamps[k][1] = WordCount(segments[k]) * 500
              /\ timestamps[k][2] >= timestamps[k][1]
        /\ pc = "done" =>
              /\ result = timestamps
              /\ Len(result) = Len(segments)
              /\ segments = <<WordsCue(4), WordsCue(2), WordsCue(6)>>
                    => result = << <<0, 2000>>, <<2000, 3000>>, <<3000, 6000>> >>

\* C10 witness: the three cues of the example were given their intervals.
C10_Witness ==
    /\ pc = "done"
    /\ segments = <<WordsCue(4), WordsCue(2), WordsCue(6)>>
    /\ result = << <<0, 2000>>, <<2000, 3000>>, <<3000, 6000>> >>

(***************************************************************************)
(* Converter (src/src/converter.py): the document path.  The f-string of   *)
(* format_srt_entry renders the index and the two times with str().        *)
(***************************************************************************)
\* the decimal digits of a natural number: str(n)
Digit(d) == <<"0", "1", "2", "3", "4", "5", "6", "7", "8", "9">>[d + 1]

RECURSIVE NatStr(_)
NatStr(n) == IF n < 10 THEN <<Digit(n)>> ELSE Append(NatStr(n \div 10), Digit(n % 10))

\* s.zfill(w): zeros on the left up to the width w, nothing cut
ZeroPad(s, w) == Rep("0", w - Len(s)) \o s

\* str(x) of a float x = ms / 1000: the integer part, a point and the
\* shortest fraction that gives the value back ("2.0", "2.5", "0.125")
FloatStr(ms) ==
    LET frac == ZeroPad(NatStr(ms % 1000), 3)
        kept == {k \in 1..3 : frac[k] # "0"}
        last == IF kept = {} THEN 1 ELSE CHOOSE k \in kept : \A j \in kept : j <= k
    IN NatStr(ms \div 1000) \o <<".">> \o SubSeq(frac, 1, last)

\* str(x) of a number of seconds held as an int or as a float
NumStr(v) == IF v.float THEN FloatStr(v.ms) ELSE NatStr(v.ms \div 1000)

\* the values generate_timestamps returns, with their Python types: the
\* first start_time is the int literal 0, every other value is the float
\* result of "start_time + n * 0.5"
PyTimes(ts) ==
    [k \in 1..Len(ts) |->
        <<[ms |-> ts[k][1], float |-> k > 1], [ms |-> ts[k][2], float |-> TRUE]>>]

\* generate_timestamps as a function of the cue list
RECURSIVE TimestampLoop(_, _, _, _)
TimestampLoop(segs, k, start, ts) ==
    IF k >= Len(segs) THEN ts
    ELSE LET end_time == EndTime(start, segs[k + 1])
         IN TimestampLoop(segs, k + 1, end_time, Append(ts, <<start, end_time>>))

GenerateTimestamps(segs) == TimestampLoop(segs, 0, 0, <<>>)

\* " --> "
Arrow == <<SP, "-", "-", ">", SP>>

\* the entry without the blank line that ends it
SrtBlock(index, start, end, txt) ==
    NatStr(index) \o <<NL>> \o start \o Arrow \o end \o <<NL>> \o txt \o <<NL>>

\* f"{index}\n{start_time} --> {end_time}\n{text}\n\n"
FormatSrtEntry(index, start, end, txt) ==
    SrtBlock(index, NumStr(start), NumStr(end), txt) \o <<NL>>

\* zip(segments, timestamps) stops at the shorter of the two lists
ZipLen(a, b) == IF Len(a) <= Len(b) THEN Len(a) ELSE Len(b)

\* format_srt: the entries, joined by a newline
SrtEntries(segs, ts) ==
    [k \in 1..ZipLen(segs, ts) |-> FormatSrtEntry(k, ts[k][1], ts[k][2], segs[k])]

FormatSrt(segs, ts) == Join(SrtEntries(segs, ts), <<NL>>)

\* extract_text: the paragraphs of the document that are not blank, joined
\* by newlines
ExtractText(document) ==
    JoinNL(SelectSeq(document, LAMBDA p : Strip(p) # <<>>))

\* convert_docx_to_srt, statement by statement; docx.Document raises on a
\* file that is not a readable package, and the exception leaves the routine
ConvertExtractText ==
    /\ pc = "convert_docx_to_srt"
    /\ IF call.readable
       THEN /\ text' = ExtractText(call.document)
            /\ pc' = "convert_split_text"
       ELSE /\ pc' = "PackageNotFoundError"
            /\ UNCHANGED text
    /\ UNCHANGED <<paragraphs, pidx, segments, i, processed_segments, result, timestamps,
                   start_time, call, written>>

ConvertSplitText ==
    /\ pc = "convert_split_text"
    /\ segments' = SplitText(text)
    /\ pc' = "convert_generate_timestamps"
    /\ UNCHANGED <<text, paragraphs, pidx, i, processed_segments, result, timestamps,
                   start_time, call, written>>

ConvertGenerateTimestamps ==
    /\ pc = "convert_generate_timestamps"
    /\ timestamps' = GenerateTimestamps(segments)
    /\ pc' = "convert_format_srt"
    /\ UNCHANGED <<text, paragraphs, pidx, segments, i, processed_segments, result,
                   start_time, call, written>>

\* srt_content = format_srt(...); write_srt(srt_path, srt_content): result is
\* the content of the file written
ConvertFormatSrt ==
    /\ pc = "convert_format_srt"
    /\ result' = FormatSrt(segments, PyTimes(timestamps))
    /\ written' = TRUE
    /\ pc' = "done"
    /\ UNCHANGED <<text, paragraphs, pidx, segments, i, processed_segments, timestamps,
                   start_time, call>>

\* the documents converted: up to MaxParagraphs paragraphs, blank ones among them
MaxParagraphs == 3
HowAreYou == <<"H", "o", "w", SP, "a", "r", "e", SP, "y", "o", "u", "?">>
DocParagraphs == {<<>>, <<SP>>, ShortToken, HowAreYou, AliceShort, NotRight, HugeToken}
Documents == {<<>>} \cup SeqsUpTo(DocParagraphs, MaxParagraphs)

InitConvert ==
    /\ pc = "convert_docx_to_srt"
    /\ call \in [fn : {"convert_docx_to_srt"}, document : Documents, readable : {TRUE}]
    /\ text = <<>>
    /\ paragraphs = <<>>
    /\ pidx = 0
    /\ segments = <<>>
    /\ i = 0
    /\ processed_segments = <<>>
    /\ result = <<>>
    /\ timestamps = <<>>
    /\ start_time = 0
    /\ written = FALSE

NextConvert ==
    ConvertExtractText \/ ConvertSplitText \/ ConvertGenerateTimestamps \/ ConvertFormatSrt

SpecConvert == InitConvert /\ [][NextConvert]_vars

ConvertDone == pc = "done" /\ call.fn = "convert_docx_to_srt"

(***************************************************************************)
(* The two timestamp formatters.  A time is a whole number of ticks of     *)
(* 1 / TicksPerSecond seconds: a power of two, so that binary floating     *)
(* point holds every such time, and every quotient, remainder and product  *)
(* the formatters compute from it, exactly.                                *)
(***************************************************************************)
TicksPerSecond == 2 ^ 11

\* the nearest integer to num / den, a tie going to the even one: the
\* rounding of the format specification ".3f"
RoundHalfEven(num, den) ==
    LET q == num \div den
        r == num % den
    IN IF 2 * r < den THEN q
       ELSE IF 2 * r > den THEN q + 1
       ELSE IF q % 2 = 0 THEN q ELSE q + 1

\* the integer part of num / den: int(x) of a non-negative float
Truncate(num, den) == num \div den

\* f"{seconds:06.3f}": the seconds rounded to three decimals, zeros on the
\* left up to six characters
FixedThree(ticks) ==
    LET m == RoundHalfEven(ticks * 1000, TicksPerSecond)
    IN ZeroPad(NatStr(m \div 1000) \o <<".">> \o ZeroPad(NatStr(m % 1000), 3), 6)

\* s.replace(".", ",")
PointToComma(s) == [k \in 1..Len(s) |-> IF s[k] = "." THEN "," ELSE s[k]]

\* format_timestamp(seconds) of timestamp_generator.py
FormatTimestamp(t) ==
    LET whole == t \div TicksPerSecond
        hours == whole \div 3600
        minutes == (whole % 3600) \div 60
        seconds == t % (60 * TicksPerSecond)
    IN PointToComma(ZeroPad(NatStr(hours), 2) \o <<":">> \o ZeroPad(NatStr(minutes), 2)
                        \o <<":">> \o FixedThree(seconds))

\* msecs = int((seconds - int(seconds)) * 1000)
AudioMsecs(t) == Truncate((t % TicksPerSecond) * 1000, TicksPerSecond)

\* AudioProcessor._format_timestamp(seconds)
AudioFormatTimestamp(t) ==
    LET whole == t \div TicksPerSecond
        hours == whole \div 3600
        minutes == (whole % 3600) \div 60
        secs == whole % 60
    IN ZeroPad(NatStr(hours), 2) \o <<":">> \o ZeroPad(NatStr(minutes), 2) \o <<":">>
           \o ZeroPad(NatStr(secs), 2) \o <<",">> \o ZeroPad(NatStr(AudioMsecs(t)), 3)

\* one call of a formatter
FormatTimestampCall ==
    /\ pc = "call"
    /\ call.fn = "format_timestamp"
    /\ result' = FormatTimestamp(call.seconds)
    /\ pc' = "done"
    /\ UNCHANGED <<text, paragraphs, pidx, segments, i, processed_segments, timestamps,
                   start_time, call, written>>

AudioFormatTimestampCall ==
    /\ pc = "call"
    /\ call.fn = "_format_timestamp"
    /\ result' = AudioFormatTimestamp(call.seconds)
    /\ pc' = "done"
    /\ UNCHANGED <<text, paragraphs, pidx, segments, i, processed_segments, timestamps,
                   start_time, call, written>>

\* the times formatted: whole seconds around the minute and the hour, plus a
\* fraction of up to MaxFracTicks ticks above or below, a half and a tie
MaxFracTicks == 8
WholeSeconds == {0, 1, 59, 60, 3599, 3600, 3661, 359999}
FracTicks ==
    (0..MaxFracTicks) \cup {TicksPerSecond - k : k \in 1..MaxFracTicks}
        \cup {TicksPerSecond \div 2, TicksPerSecond \div 16, 3 * (TicksPerSecond \div 16)}
Times == {w * TicksPerSecond + f : w \in WholeSeconds, f \in FracTicks}

InitFormat ==
    /\ pc = "call"
    /\ call \in [fn : {"format_timestamp", "_format_timestamp"}, seconds : Times]
    /\ text = <<>>
    /\ paragraphs = <<>>
    /\ pidx = 0
    /\ segments = <<>>
    /\ i = 0
    /\ processed_segments = <<>>
    /\ result = <<>>
    /\ timestamps = <<>>
    /\ start_time = 0
    /\ written = FALSE

NextFormat == FormatTimestampCall \/ AudioFormatTimestampCall

SpecFormat == InitFormat /\ [][NextFormat]_vars

(***************************************************************************)
(* AudioProcessor.convert_to_srt (src/src/audio_processor.py): the audio   *)
(* path.  A recognition result is a record with its list of alternatives;  *)
(* an alternative has a transcript and the list of its words, each with a  *)
(* start and an end time in ticks.                                         *)
(***************************************************************************)
\* the attributes of a TextProcessor object: the methods the class defines
TextProcessorAttrs ==
    {"extract_text", "split_text", "_post_process_segments", "_try_combine_segments",
     "_find_optimal_break_point", "_format_subtitle_text", "_break_into_two_lines"}

\* the exception an attribute reference raises, "" when the attribute exists
AttributeLookup(name) == IF name \in TextProcessorAttrs THEN "" ELSE "AttributeError"

\* text_processor._enforce_character_limit(segs, max_chars=...): the outcome
\* of the expression, an exception raised or a value returned.  The method
\* is looked up before it is called, and nothing is returned when that raises
EnforceCharacterLimit(segs, max_chars) ==
    [raised |-> AttributeLookup("_enforce_character_limit"), value |-> <<>>]

\* max_chars=42 of the call in convert_to_srt
AudioMaxChars == 42

\* the body of "for result in results": a result without alternatives, with a
\* blank transcript or without words is passed over
CollectBody(segs, res) ==
    IF res.alternatives = <<>> THEN segs
    ELSE LET transcript == Strip(res.alternatives[1].transcript)
             words == res.alternatives[1].words
         IN IF transcript = <<>> THEN segs
            ELSE IF words = <<>> THEN segs
            ELSE Append(segs, [text |-> transcript,
                               start_time |-> words[1].start_time,
                               end_time |-> words[Len(words)].end_time])

CollectResult ==
    /\ pc = "convert_to_srt"
    /\ i < Len(call.results)
    /\ segments' = CollectBody(segments, call.results[i + 1])
    /\ i' = i + 1
    /\ UNCHANGED <<pc, text, paragraphs, pidx, processed_segments, result, timestamps,
                   start_time, call, written>>

CollectDone ==
    /\ pc = "convert_to_srt"
    /\ i >= Len(call.results)
    /\ pc' = "enforce_character_limit"
    /\ i' = 0
    /\ UNCHANGED <<text, paragraphs, pidx, segments, processed_segments, result, timestamps,
                   start_time, call, written>>

\* the cues of one utterance, each with the times of the utterance
WithTimes(text_segments, segment) ==
    [k \in 1..Len(text_segments) |->
        [text |-> text_segments[k], start_time |-> segment.start_time,
         end_time |-> segment.end_time]]

\* the body of "for segment in segments" with the output file opened before
\* the loop instead of after it
EnforceSegmentFileOpen ==
    /\ pc = "enforce_character_limit"
    /\ i < Len(segments)
    /\ LET segment == segments[i + 1]
           r == EnforceCharacterLimit(<<segment.text>>, AudioMaxChars)
       IN IF r.raised # ""
          THEN /\ pc' = r.raised
               /\ written' = TRUE
               /\ UNCHANGED <<i, processed_segments>>
          ELSE /\ processed_segments' = processed_segments \o WithTimes(r.value, segment)
               /\ i' = i + 1
               /\ UNCHANGED <<pc, written>>
    /\ UNCHANGED <<text, paragraphs, pidx, segments, result, timestamps, start_time, call>>

\* the body of "for segment in segments": an exception raised by the call
\* leaves the routine
EnforceSegment ==
    /\ pc = "enforce_character_limit"
    /\ i < Len(segments)
    /\ LET segment == segments[i + 1]
           r == EnforceCharacterLimit(<<segment.text>>, AudioMaxChars)
       IN IF r.raised # ""
          THEN /\ pc' = r.raised
               /\ UNCHANGED <<i, processed_segments>>
          ELSE /\ processed_segments' = processed_segments \o WithTimes(r.value, segment)
               /\ i' = i + 1
               /\ UNCHANGED pc
    /\ UNCHANGED <<text, paragraphs, pidx, segments, result, timestamps, start_time, call, written>>

\* the file the last loop writes: index, timestamp line, text, blank line
AudioSrt(processed) ==
    Join([k \in 1..Len(processed) |->
            SrtBlock(k, AudioFormatTimestamp(processed[k].start_time),
                     AudioFormatTimestamp(processed[k].end_time), processed[k].text)
                \o <<NL>>], <<>>)

WriteSrt ==
    /\ pc = "enforce_character_limit"
    /\ i >= Len(segments)
    /\ result' = AudioSrt(processed_segments)
    /\ written' = TRUE
    /\ pc' = "done"
    /\ UNCHANGED <<text, paragraphs, pidx, segments, i, processed_segments, timestamps,
                   start_time, call>>

\* the recognition results converted: up to MaxResults results, each without
\* alternatives, with a blank transcript, without words, or an utterance of
\* one to three words (the third one longer than two lines)
MaxResults == 3
Word(k) == [start_time |-> k * TicksPerSecond, end_time |-> k * TicksPerSecond + TicksPerSecond \div 2]
Alternative(transcript, words) == [transcript |-> transcript, words |-> words]
NoAlternatives == [alternatives |-> <<>>]
BlankTranscript == [alternatives |-> <<Alternative(<<SP>>, <<Word(1)>>)>>]
NoWords == [alternatives |-> <<Alternative(ShortToken, <<>>)>>]
ShortUtterance == [alternatives |-> <<Alternative(<<SP>> \o ShortToken, <<Word(2)>>)>>]
TwoWordUtterance ==
    [alternatives |-> <<Alternative(HowAreYou, <<Word(3), Word(4)>>),
                        Alternative(ShortToken, <<Word(9)>>)>>]
LongUtterance ==
    [alternatives |->
        <<Alternative(JoinSp(<<NotRight, NotRight, NotRight>>), <<Word(5), Word(6), Word(7)>>)>>]
Results ==
    {NoAlternatives, BlankTranscript, NoWords, ShortUtterance, TwoWordUtterance, LongUtterance}
ResultLists == {<<>>} \cup SeqsUpTo(Results, MaxResults)

InitAudio ==
    /\ pc = "convert_to_srt"
    /\ call \in [fn : {"convert_to_srt"}, results : ResultLists]
    /\ text = <<>>
    /\ paragraphs = <<>>
    /\ pidx = 0
    /\ segments = <<>>
    /\ i = 0
    /\ processed_segments = <<>>
    /\ result = <<>>
    /\ timestamps = <<>>
    /\ start_time = 0
    /\ written = FALSE

NextAudio == CollectResult \/ CollectDone \/ EnforceSegment \/ WriteSrt

SpecAudio == InitAudio /\ [][NextAudio]_vars

(***************************************************************************)
(* C11..C20                                                                *)
(***************************************************************************)
IsDigit(c) == c \in {"0", "1", "2", "3", "4", "5", "6", "7", "8", "9"}

\* HH:MM:SS,mmm
IsSrtTime(s) ==
    /\ Len(s) = 12
    /\ s[3] = ":" /\ s[6] = ":" /\ s[9] = ","
    /\ \A k \in {1, 2, 4, 5, 7, 8, 10, 11, 12} : IsDigit(s[k])

\* HH:MM:SS,mmm --> HH:MM:SS,mmm
IsSrtTimestampLine(line) ==
    /\ Len(line) = 29
    /\ IsSrtTime(SubSeq(line, 1, 12))
    /\ SubSeq(line, 13, 17) = Arrow
    /\ IsSrtTime(SubSeq(line, 18, 29))

\* the timestamp lines of a serialized output: its lines that hold an arrow
TimestampLines(srt) == {line \in Range(SplitOn(srt, NL)) : IsInfix(Arrow, line)}

\* C11: in the document path the timestamp line of every serialized block has
\* the form HH:MM:SS,mmm --> HH:MM:SS,mmm, zero-padded, with a comma before
\* the milliseconds.
C11_TimestampLineShape ==
    ConvertDone => \A line \in TimestampLines(result) : IsSrtTimestampLine(line)

\* the value of a string of digits
DigitVal(c) == CHOOSE d \in 0..9 : Digit(d) = c

RECURSIVE NatVal(_)
NatVal(s) == IF s = <<>> THEN 0 ELSE 10 * NatVal(SubSeq(s, 1, Len(s) - 1)) + DigitVal(s[Len(s)])

\* the milliseconds a rendered H:M:S,m denotes
SrtTimeMs(s) ==
    LET hms == SplitOn(s, ":")
        sm == SplitOn(hms[3], ",")
    IN ((NatVal(hms[1]) * 60 + NatVal(hms[2])) * 60 + NatVal(sm[1])) * 1000 + NatVal(sm[2])

\* floor(t * 1000) for a time of t ticks
FloorMs(t) == (t \div TicksPerSecond) * 1000 + ((t % TicksPerSecond) * 1000) \div TicksPerSecond

FormatterDone == pc = "done" /\ call.fn \in {"format_timestamp", "_format_timestamp"}

\* C12: both timestamp formatters truncate to the millisecond and never
\* round: the rendered HH:MM:SS,mmm denotes floor(t * 1000) milliseconds.
C12_FormattersTruncate ==
    FormatterDone => SrtTimeMs(result) = FloorMs(call.seconds)

\* the blocks of a cue list: index, timestamp line as rendered, text
Blocks(segs, ts) ==
    [k \in 1..Len(segs) |-> SrtBlock(k, NumStr(ts[k][1]), NumStr(ts[k][2]), segs[k])]

\* the blocks in order, each followed by one blank line
OneBlankLineAfterEach(blocks) ==
    Join([k \in 1..Len(blocks) |-> blocks[k] \o <<NL>>], <<>>)

\* C13: the serialized output is the sequence of blocks "index, timestamp
\* line, text, blank line", with exactly one blank line between consecutive
\* blocks.
C13_OneBlankLineBetweenBlocks ==
    ConvertDone => result = OneBlankLineAfterEach(Blocks(segments, PyTimes(timestamps)))

\* the index lines of a serialized output: the lines right before its
\* timestamp lines, in order
IndexLines(srt) ==
    LET lines == SplitOn(srt, NL)
        at == Sorted({j \in 1..(Len(lines) - 1) : IsInfix(Arrow, lines[j + 1])})
    IN [k \in 1..Len(at) |-> lines[at[k]]]

\* "1", "2", ..., "n"
Indices(n) == [k \in 1..n |-> NatStr(k)]

\* the results the audio path keeps: an alternative, a transcript that is not
\* blank, at least one word
IsUtterance(res) ==
    /\ res.alternatives # <<>>
    /\ Strip(res.alternatives[1].transcript) # <<>>
    /\ res.alternatives[1].words # <<>>

Utterances(results) == SelectSeq(results, IsUtterance)

AudioTerminated == call.fn = "convert_to_srt" /\ pc \in {"done", "AttributeError"}

\* the document path of C14: one timestamp pair per cue, and the k-th block
\* of the file carries the index k, for as many blocks as there are cues
C14_DocumentIndices ==
    ConvertDone =>
        /\ Len(timestamps) = Len(segments)
        /\ IndexLines(result) = Indices(Len(segments))

C14_DocumentWitness ==
    /\ ConvertDone
    /\ Len(segments) = MaxParagraphs
    /\ IndexLines(result) = Indices(MaxParagraphs)

\* C14: cue indices are 1-based and contiguous: in both paths the k-th
\* serialized block carries index k and there are as many blocks as cues, no
\* cue being lost on the way to the file (in the audio path every utterance
\* gives at least one cue).
C14_ContiguousIndices ==
    /\ C14_DocumentIndices
    /\ AudioTerminated =>
          /\ Len(processed_segments) >= Len(Utterances(call.results))
          /\ IndexLines(result) = Indices(Len(processed_segments))

\* the times of an utterance: the start of its first word, the end of its last
UtteranceStart(res) == res.alternatives[1].words[1].start_time
UtteranceEnd(res) ==
    res.alternatives[1].words[Len(res.alternatives[1].words)].end_time

\* cues are the cues of the utterances utts, utterance by utterance: a map
\* from the cues onto the utterances that never goes back, each cue carrying
\* the times of its utterance
CuesOfUtterances(cues, utts) ==
    \E f \in [1..Len(cues) -> 1..Len(utts)] :
        /\ \A k \in 1..(Len(cues) - 1) : f[k] <= f[k + 1]
        /\ \A u \in 1..Len(utts) : \E k \in 1..Len(cues) : f[k] = u
        /\ \A k \in 1..Len(cues) :
              /\ cues[k].start_time = UtteranceStart(utts[f[k]])
              /\ cues[k].end_time = UtteranceEnd(utts[f[k]])

\* C15: in the audio path every cue produced from an utterance carries the
\* start time of the utterance's first word and the end time of its last
\* word, all cues of one utterance carry the same pair, and the cues come in
\* utterance order.
C15_CuesCarryUtteranceTimes ==
    AudioTerminated => CuesOfUtterances(processed_segments, Utterances(call.results))

\* a cue list within the limits: at most two lines per cue, every line at
\* most max_chars long
WithinLimits(cues, max_chars) ==
    \A cue \in Range(cues) :
        /\ Len(Lines(cue)) <= 2
        /\ \A line \in Range(Lines(cue)) : Len(line) <= max_chars

\* C16: the limit-enforcement pass the audio path calls on every utterance
\* returns cues of at most 2 lines of at most max_chars characters, and
\* applied to its own output it returns that output unchanged.
C16_EnforcementIdempotent ==
    (pc = "enforce_character_limit" /\ i < Len(segments)) =>
        LET out == EnforceCharacterLimit(<<segments[i + 1].text>>, AudioMaxChars)
        IN /\ out.raised = ""
           /\ out.value # <<>>
           /\ WithinLimits(out.value, AudioMaxChars)
           /\ EnforceCharacterLimit(out.value, AudioMaxChars) = out

\* the cues are those of the results that are utterances, in result order:
\* a map from the cues to the results that never goes back, reaches every
\* utterance and nothing else, each cue carrying the times of its result
CuesInResultOrder(cues, results) ==
    \E f \in [1..Len(cues) -> 1..Len(results)] :
        /\ \A k \in 1..(Len(cues) - 1) : f[k] <= f[k + 1]
        /\ \A r \in 1..Len(results) :
              IsUtterance(results[r]) <=> \E k \in 1..Len(cues) : f[k] = r
        /\ \A k \in 1..Len(cues) :
              /\ cues[k].start_time = UtteranceStart(results[f[k]])
              /\ cues[k].end_time = UtteranceEnd(results[f[k]])

\* C17: a recognition result with no alternatives, an empty transcript or no
\* words is dropped and yields no cue, without failing the conversion; every
\* other result yields its cues, in the original result order.
C17_DroppedResultsYieldNoCue ==
    AudioTerminated =>
        /\ pc = "done"
        /\ CuesInResultOrder(processed_segments, call.results)

\* the text without its blank paragraphs
RemoveBlankParagraphs(txt) ==
    JoinNL(SelectSeq(SplitOn(txt, NL), LAMBDA p : Strip(p) # <<>>))

\* the text has a blank paragraph between two paragraphs that are not blank
HasInnerBlankParagraph(txt) ==
    LET ps == SplitOn(txt, NL)
    IN \E a, b, c \in 1..Len(ps) :
          /\ a < b /\ b < c
          /\ Strip(ps[a]) # <<>> /\ Strip(ps[b]) = <<>> /\ Strip(ps[c]) # <<>>

\* C18: blank paragraphs are skipped silently: split_text returns the same
\* cues for a text as for the text with its blank paragraphs removed, and no
\* cue for a text of blank paragraphs only.
C18_BlankParagraphsSkipped ==
    SplitTextDone =>
        /\ result = SplitText(RemoveBlankParagraphs(text))
        /\ (RemoveBlankParagraphs(text) = <<>> => result = <<>>)

C18_Witness ==
    /\ SplitTextDone
    /\ HasInnerBlankParagraph(text)
    /\ Len(result) >= 2
    /\ result = SplitText(RemoveBlankParagraphs(text))

\* C19: every cue returned by split_text has a text that is not empty, and
\* none of its lines is empty, tokens longer than max_chars included.
C19_NoEmptyCueOrLine ==
    SplitTextDone =>
        \A cue \in Range(result) :
            /\ cue # <<>>
            /\ \A line \in Range(Lines(cue)) : line # <<>>


\* a token longer than a line: the formatter hands back an empty piece before
\* it, and the cue returned has neither an empty text nor an empty line
C19_Witness ==
    /\ SplitTextDone
    /\ text = HugeToken
    /\ <<>> \in Range(FormatSubtitleText(text, DefaultMaxChars, FALSE))
    /\ result = <<HugeToken>>

\* the words of a cue list, read cue by cue and line by line
WordsOf(cues) == Split(JoinNL(cues))

\* C20: cue ordering is stable: the cues returned by split_text, read in
\* order line by line, give the words of the input paragraphs in their
\* original order, none dropped, duplicated or moved.
C20_WordsInInputOrder ==
    SplitTextDone => WordsOf(result) = Split(text)

(***************************************************************************)
(* A session: the web application builds one TextProcessor when it starts  *)
(* and every request calls split_text on that same object.  TextProcessor  *)
(* has no __init__ and assigns no attribute, so what a call could inherit   *)
(* from the call before is what the names of the routine still hold; a new  *)
(* call starts with all of it in place.  call.history is the caller's       *)
(* record of the calls made so far.                                         *)
(***************************************************************************)
\* the number of calls of a session
MaxCalls == 3

\* the texts of the requests of a session
SessionTexts == ExampleTexts \cup FiveWordTexts

\* the next request: split_text is called again on the same processor
Reinvoke ==
    /\ pc = "done"
    /\ Len(call.history) < MaxCalls - 1
    /\ call' = [call EXCEPT !.history = Append(@, [text |-> text, result |-> result])]
    /\ text' \in SessionTexts
    /\ pc' = "split_text"
    /\ UNCHANGED <<paragraphs, pidx, segments, i, processed_segments, result, timestamps,
                   start_time, written>>

InitSession ==
    /\ pc = "split_text"
    /\ text \in SessionTexts
    /\ call = [fn |-> "session", history |-> <<>>]
    /\ paragraphs = <<>>
    /\ pidx = 0
    /\ segments = <<>>
    /\ i = 0
    /\ processed_segments = <<>>
    /\ result = <<>>
    /\ timestamps = <<>>
    /\ start_time = 0
    /\ written = FALSE

NextSession == Next \/ Reinvoke

SpecSession == InitSession /\ [][NextSession]_vars

(***************************************************************************)
(* C21..C30                                                                *)
(***************************************************************************)
SessionCallDone == pc = "done" /\ call.fn = "session"

\* C21: the engine carries no state across invocations: a call of split_text
\* returns the same cues as every earlier call with the same text on the same
\* processor, whatever calls were made in between.
C21_NoStateAcrossCalls ==
    SessionCallDone =>
        \A k \in 1..Len(call.history) :
            call.history[k].text = text => call.history[k].result = result

C21_Witness ==
    /\ SessionCallDone
    /\ Len(call.history) = 2
    /\ text = AliceTag \o <<NL>> \o HelloThere
    /\ call.history[1].text = text
    /\ call.history[2].text = JoinSp(<<ShortToken, LongToken, LongToken, ShortToken, LongToken>>)
    /\ call.history[1].result = result
    /\ result # <<>>


(***************************************************************************)
(* The web handlers: /convert and /transcribe run the two conversions in   *)
(* a try block and answer with the file or with a redirect to the index    *)
(* page after flashing a message.                                          *)
(***************************************************************************)
Exceptions == {"PackageNotFoundError", "AttributeError", "GoogleAPICallError"}

NoFileUploaded == "No file uploaded"
NoFileSelected == "No file selected"
ConversionError == "Error during conversion"
TranscriptionError == "Error during transcription"

\* return redirect(url_for('index')) after flash(message)
FlashRedirect(message) ==
    /\ call' = [call EXCEPT !.flash = message]
    /\ pc' = "redirect"

\* convert(): the checks of the upload, then the try block is entered
ConvertUpload ==
    /\ pc = "convert"
    /\ IF call.upload = "missing" THEN FlashRedirect(NoFileUploaded)
       ELSE IF call.upload = "unnamed" THEN FlashRedirect(NoFileSelected)
       ELSE IF call.upload # "docx" THEN FlashRedirect("Only DOCX files are supported")
       ELSE pc' = "convert_docx_to_srt" /\ UNCHANGED call
    /\ UNCHANGED <<text, paragraphs, pidx, segments, i, processed_segments, result,
                   timestamps, start_time, written>>

ConvertSendFile ==
    /\ pc = "done"
    /\ call.fn = "convert"
    /\ pc' = "send_file"
    /\ UNCHANGED <<text, paragraphs, pidx, segments, i, processed_segments, result,
                   timestamps, start_time, call, written>>

ConvertExcept ==
    /\ pc \in Exceptions
    /\ call.fn = "convert"
    /\ FlashRedirect(ConversionError)
    /\ UNCHANGED <<text, paragraphs, pidx, segments, i, processed_segments, result,
                   timestamps, start_time, written>>

\* transcribe(): the checks of the upload
TranscribeUpload ==
    /\ pc = "transcribe"
    /\ IF call.upload = "missing" THEN FlashRedirect(NoFileUploaded)
       ELSE IF call.upload = "unnamed" THEN FlashRedirect(NoFileSelected)
       ELSE IF call.upload # "audio" THEN FlashRedirect("Only audio files are supported")
       ELSE pc' = "transcribe_file" /\ UNCHANGED call
    /\ UNCHANGED <<text, paragraphs, pidx, segments, i, processed_segments, result,
                   timestamps, start_time, written>>

\* the try block up to results = audio_processor.transcribe_file(audio_path):
\* without a speech client the handler redirects, and a failure of the
\* recognition request is raised out of transcribe_file
TranscribeFile ==
    /\ pc = "transcribe_file"
    /\ IF ~call.client THEN FlashRedirect("Google Speech API not available")
       ELSE IF ~call.recognized THEN pc' = "GoogleAPICallError" /\ UNCHANGED call
       ELSE pc' = "convert_to_srt" /\ UNCHANGED call
    /\ UNCHANGED <<text, paragraphs, pidx, segments, i, processed_segments, result,
                   timestamps, start_time, written>>

TranscribeSendFile ==
    /\ pc = "done"
    /\ call.fn = "transcribe"
    /\ pc' = "send_file"
    /\ UNCHANGED <<text, paragraphs, pidx, segments, i, processed_segments, result,
                   timestamps, start_time, call, written>>

TranscribeExcept ==
    /\ pc \in Exceptions
    /\ call.fn = "transcribe"
    /\ FlashRedirect(TranscriptionError)
    /\ UNCHANGED <<text, paragraphs, pidx, segments, i, processed_segments, result,
                   timestamps, start_time, written>>

\* the requests: an upload that fails a check, a file that is no readable
\* document, a document, a missing client, a failing recognition request,
\* recognition results
ConvertRequests ==
    [fn : {"convert"}, upload : {"missing", "unnamed", "not_docx"}, document : {<<>>},
     readable : {FALSE}, flash : {""}]
    \cup [fn : {"convert"}, upload : {"docx"}, document : {<<>>}, readable : {FALSE},
          flash : {""}]
    \cup [fn : {"convert"}, upload : {"docx"}, document : Documents, readable : {TRUE},
          flash : {""}]
TranscribeRequests ==
    [fn : {"transcribe"}, upload : {"missing", "unnamed", "not_audio"}, client : {TRUE},
     recognized : {TRUE}, results : {<<>>}, flash : {""}]
    \cup [fn : {"transcribe"}, upload : {"audio"}, client : BOOLEAN, recognized : {FALSE},
          results : {<<>>}, flash : {""}]
    \cup [fn : {"transcribe"}, upload : {"audio"}, client : {TRUE}, recognized : {TRUE},
          results : ResultLists, flash : {""}]

InitWeb ==
    /\ call \in ConvertRequests \cup TranscribeRequests
    /\ pc = call.fn
    /\ text = <<>>
    /\ paragraphs = <<>>
    /\ pidx = 0
    /\ segments = <<>>
    /\ i = 0
    /\ processed_segments = <<>>
    /\ result = <<>>
    /\ timestamps = <<>>
    /\ start_time = 0
    /\ written = FALSE

NextWeb ==
    \/ ConvertUpload \/ NextConvert \/ ConvertSendFile \/ ConvertExcept
    \/ TranscribeUpload \/ TranscribeFile \/ NextAudio \/ TranscribeSendFile
    \/ TranscribeExcept

SpecWeb == InitWeb /\ [][NextWeb]_vars

\* the request failed in an upstream step: the exception is in flight or
\* its message has been flashed
UpstreamFailed ==
    pc \in Exceptions \/ call.flash \in {ConversionError, TranscriptionError}

\* C22: a failure of an upstream step (text extraction, transcription, the
\* segmentation of an utterance) is one terminal failure of the request: no
\* output file is written, the handler catches the exception, flashes the
\* error and returns the redirect, never the file, and nothing happens after
\* the redirect.
C22_UpstreamFailureIsTerminal ==
    /\ [](UpstreamFailed => ~written /\ result = <<>> /\ pc # "send_file")
    /\ [][/\ pc \in Exceptions => pc' = "redirect" /\ UpstreamFailed' /\ ~written'
          /\ pc # "redirect"]_vars
C22_Witness ==
    /\ pc = "redirect"
    /\ call.fn = "convert"
    /\ call.flash = ConversionError
    /\ ~call.readable
    /\ ~written

(***************************************************************************)
(* Direct calls of the routines of the merge pass.                         *)
(***************************************************************************)
FindBreakCall ==
    /\ pc = "call"
    /\ call.fn = "find_optimal_break_point"
    /\ result' = FindOptimalBreakPoint(call.words, call.max_chars)
    /\ pc' = "done"
    /\ UNCHANGED <<text, paragraphs, pidx, segments, i, processed_segments, timestamps,
                   start_time, call, written>>

\* _try_combine_segments on a predecessor of one or two lines and a
\* candidate of one line; the value returned is in result
CombineCall ==
    /\ pc = "call"
    /\ call.fn = "try_combine_segments"
    /\ result' = TryCombineSegments(call.segment1, call.segment2, call.max_chars,
                                    call.allow_longer)
    /\ pc' = "done"
    /\ UNCHANGED <<text, paragraphs, pidx, segments, i, processed_segments, timestamps,
                   start_time, call, written>>

\* a token that fills a line of SmallMaxChars characters
FullLineToken == Rep("c", SmallMaxChars)

\* cues of up to MaxSegmentTokens tokens on one line, and of two lines
MaxSegmentTokens == 2
OneLineSegments ==
    {JoinSp(q) : q \in SeqsUpTo(SmallTokens \cup {FullLineToken}, MaxSegmentTokens)}
TwoLineSegments ==
    {a \o <<NL>> \o b : a \in SmallTokens \cup {FullLineToken}, b \in SmallTokens}

\* _post_process_segments on a list of cues
PostProcessCall ==
    /\ pc = "call"
    /\ call.fn = "post_process_segments"
    /\ result' = PostProcessSegments(call.segments, call.max_chars)
    /\ pc' = "done"
    /\ UNCHANGED <<text, paragraphs, pidx, segments, i, processed_segments, timestamps,
                   start_time, call, written>>

\* the cues of those lists: short and long cues that end a sentence or do
\* not, and cues of three and four lines
IAmHere ==
    <<"I", SP, "a", "m", SP, "h", "e", "r", "e", ".">>
Yes ==
    <<"Y", "e", "s", ".">>
Wait ==
    <<"W", "a", "i", "t", ";">>
GoOn ==
    <<"g", "o", SP, "o", "n", SP, "n", "o", "w", SP, "p", "l", "e", "a", "s", "e">>
ThreeLines ==
    <<"f", "i", "r", "s", "t", SP, "l", "i", "n", "e", SP, "o", "f", SP, "t", "h", "r", "e", "e", NL, "s", "e", "c", "o", "n", "d", SP, "l", "i", "n", "e", SP, "o", "f", SP, "t", "h", "r", "e", "e", NL, "t", "h", "i", "r", "d", SP, "l", "i", "n", "e", SP, "o", "f", SP, "t", "h", "r", "e", "e">>
FourLines ==
    <<"t", "h", "e", SP, "f", "i", "r", "s", "t", SP, "l", "i", "n", "e", SP, "o", "f", SP, "f", "o", "u", "r", SP, "l", "i", "n", "e", "s", NL, "t", "h", "e", SP, "s", "e", "c", "o", "n", "d", SP, "l", "i", "n", "e", SP, "o", "f", SP, "f", "o", "u", "r", SP, "l", "i", "n", "e", "s", NL, "t", "h", "e", SP, "t", "h", "i", "r", "d", SP, "l", "i", "n", "e", SP, "o", "f", SP, "f", "o", "u", "r", SP, "l", "i", "n", "e", "s", NL, "t", "h", "e", SP, "f", "o", "u", "r", "t", "h", SP, "l", "i", "n", "e", SP, "o", "f", SP, "f", "o", "u", "r", SP, "l", "i", "n", "e", "s">>
PostCues == {IAmHere, Yes, Wait, GoOn, HelloThere, NotRight, ThreeLines, FourLines}
PostCueLists == SeqsUpTo(PostCues, MaxCues)

\* word lists of up to MaxTokens tokens, a token that fills a line among them
WordLists == SeqsUpTo(Tokens, MaxTokens)
SmallWordLists == SeqsUpTo(SmallTokens \cup {FullLineToken}, MaxTokens)

RoutineCalls ==
    [fn : {"find_optimal_break_point"}, words : WordLists, max_chars : {DefaultMaxChars}]
    \cup [fn : {"find_optimal_break_point"}, words : SmallWordLists,
          max_chars : {SmallMaxChars}]
    \cup [fn : {"break_into_two_lines"}, text : {JoinSp(q) : q \in SmallWordLists},
          max_chars : {SmallMaxChars}]
    \cup [fn : {"post_process_segments"}, segments : PostCueLists,
          max_chars : {DefaultMaxChars}]
    \cup [fn : {"try_combine_segments"}, segment1 : OneLineSegments \cup TwoLineSegments,
          segment2 : OneLineSegments, max_chars : {SmallMaxChars},
          allow_longer : BOOLEAN]

InitRoutine ==
    /\ pc = "call"
    /\ call \in RoutineCalls
    /\ text = <<>>
    /\ paragraphs = <<>>
    /\ pidx = 0
    /\ segments = <<>>
    /\ i = 0
    /\ processed_segments = <<>>
    /\ result = <<>>
    /\ timestamps = <<>>
    /\ start_time = 0
    /\ written = FALSE

NextRoutine == FindBreakCall \/ BreakCall \/ CombineCall \/ PostProcessCall

SpecRoutine == InitRoutine /\ [][NextRoutine]_vars

\* the 0-based indices of the tokens that end in sentence punctuation and
\* after which the list splits into two lines within the budget
PunctuationSplits(words, max_chars) ==
    {k \in 0..(Len(words) - 2) :
        /\ EndsSentence(words[k + 1])
        /\ Len(FirstPart(words, k + 1)) <= max_chars
        /\ Len(SecondPart(words, k + 1)) <= max_chars}

\* C23: Line Breaker punctuation rule: when some token ends with one of
\* . ? ! ; : and splitting right after it gives two lines within max_chars,
\* _find_optimal_break_point returns the index of the first such token, the
\* first token of the list included.
C23_FirstPunctuationSplit ==
    Called("find_optimal_break_point") =>
        LET splits == PunctuationSplits(call.words, call.max_chars)
        IN splits # {} => /\ result \in splits
                          /\ \A k \in splits : result <= k

\* the 0-based indices after which the list splits into two lines within the
\* budget, and the difference of the lengths of the two lines
FittingSplits(words, max_chars) ==
    {k \in 0..(Len(words) - 2) :
        /\ Len(FirstPart(words, k + 1)) <= max_chars
        /\ Len(SecondPart(words, k + 1)) <= max_chars}
LineDifference(words, k) ==
    Abs(Len(FirstPart(words, k + 1)) - Len(SecondPart(words, k + 1)))
PunctuationFree(words) == \A k \in 1..Len(words) : ~EndsNatural(words[k]) /\ ~EndsSentence(words[k])

\* C24: Line Breaker balance rule: when no punctuation split applies and some
\* split index leaves both lines within max_chars (a second line of exactly
\* max_chars included), _find_optimal_break_point returns an index that
\* minimises the difference of the two line lengths among those indices, and
\* a punctuation-free sentence longer than max_chars comes out of
\* _break_into_two_lines as one cue of exactly 2 lines, none over max_chars.
C24_BalancedSplit ==
    /\ Called("find_optimal_break_point") =>
          LET words == call.words
              fits == FittingSplits(words, call.max_chars)
          IN (/\ Len(JoinSp(words)) > call.max_chars
              /\ PunctuationSplits(words, call.max_chars) = {}
              /\ fits # {})
                 => /\ result \in fits
                    /\ \A k \in fits : LineDifference(words, result) <= LineDifference(words, k)
    /\ Called("break_into_two_lines") =>
          LET words == Split(call.text)
          IN (/\ Len(call.text) > call.max_chars
              /\ PunctuationFree(words)
              /\ FittingSplits(words, call.max_chars) # {})
                 => /\ Len(result) = 1
                    /\ Len(Lines(result[1])) = 2
                    /\ \A line \in Range(Lines(result[1])) : Len(line) <= call.max_chars

\* cue k of the input ends in sentence punctuation
EndsUtterance(cue) == EndsSentence(Strip(cue))

\* some output cue holds the words of input cue k followed by the first word
\* of the cue that came after it
MergedForward(input, output, k) ==
    \E cue \in Range(output) :
        IsInfix(Split(input[k]) \o <<Split(input[k + 1])[1]>>, Split(cue))

\* C25: a cue ending in sentence punctuation (one of . ? ! ; :) is never
\* merged forward: no cue returned by _post_process_segments contains the
\* text of such a cue followed by text of the cue that came after it.
C25_NeverMergedForward ==
    Called("post_process_segments") =>
        \A k \in 1..(Len(call.segments) - 1) :
            EndsUtterance(call.segments[k]) => ~MergedForward(call.segments, result, k)

\* the predecessor handed to the combine routine by the merge pass: at most
\* two lines, each within the budget, and not a bare tag
MergePredecessor(cue, max_chars) ==
    /\ Len(Lines(cue)) <= 2
    /\ \A line \in Range(Lines(cue)) : Len(line) <= max_chars
    /\ ~IsTagOnly(cue)

\* C26: whenever _try_combine_segments combines such a predecessor with a
\* single-line candidate, the combined cue has at most 2 lines and every
\* line is within max_chars; otherwise the merge is refused (None).
C26_CombinedCueWithinLimits ==
    Called("try_combine_segments") =>
        ((MergePredecessor(call.segment1, call.max_chars) /\ result.some)
            => WithinLimits(<<result.value>>, call.max_chars))

\* the first sweep leaves the list as it is, so the merge pass meets the
\* cues of the input
ReachesMergePass(input, max_chars) == FirstPassLoop(input, 0, max_chars) = input

\* C27: a cue of more than 2 lines met by the merge pass keeps its first 2
\* lines and its overflow lines are reinserted right after it in their
\* original order: the words of the cue, line after line, are found in the
\* same order in the output, so no line is lost and the 3rd line comes
\* before the 4th.
C27_OverflowLinesInOrder ==
    Called("post_process_segments") =>
        (ReachesMergePass(call.segments, call.max_chars) =>
            \A k \in 1..Len(call.segments) :
                Len(Lines(call.segments[k])) > 2
                    => IsInfix(Split(call.segments[k]), WordsOf(result)))

\* every recursive call of _format_subtitle_text on txt is on a text strictly
\* shorter than the one of the call that makes it
RECURSIVE RecursionShrinks(_, _, _)
RecursionShrinks(txt, max_chars, keep_speaker) ==
    LET r == Recursion(txt, max_chars, keep_speaker)
    IN (~FitsOneLine(txt, max_chars) /\ r.some)
           => /\ Len(r.rest) < Len(txt)
              /\ RecursionShrinks(r.rest, DefaultMaxChars, FALSE)

\* what is left of the merge pass at index k: the cues not yet met and the
\* overflow lines they will have reinserted
RECURSIVE PendingOverflow(_, _)
PendingOverflow(list, k) ==
    IF k >= Len(list) THEN 0
    ELSE Len(Overflow(Lines(list[k + 1]))) + PendingOverflow(list, k + 1)
MergeRemaining(list, k) == Len(list) - k + PendingOverflow(list, k)

\* the loops of split_text in the order they run, and what is left of the
\* loop that is running
Phase ==
    CASE pc = "split_text" -> 4
      [] pc = "paragraphs" -> 3
      [] pc = "first_pass" -> 2
      [] pc = "merge_pass" -> 1
      [] OTHER -> 0
Remaining ==
    CASE pc = "paragraphs" -> Len(paragraphs) - pidx
      [] pc = "first_pass" -> Len(segments) - i
      [] pc = "merge_pass" -> MergeRemaining(segments, i)
      [] OTHER -> 0

\* C28: split_text terminates: each recursive call of _format_subtitle_text
\* on a paragraph is on a strictly shorter remainder; an iteration of the
\* first sweep merges two cues or advances, so the distance of the index to
\* the end of the list shrinks; an iteration of the merge pass advances past
\* the cue it met, overflow lines it reinserted included; and every step of
\* the call moves on to a later loop or shrinks what is left of the running
\* one, which is never negative.
C28_SplitTextTerminates ==
    /\ [](pc = "paragraphs" =>
             \A k \in 1..Len(paragraphs) : \A keep_speaker \in BOOLEAN :
                 RecursionShrinks(Strip(paragraphs[k]), DefaultMaxChars, keep_speaker))
    /\ []((pc = "first_pass" /\ i < Len(segments) - 1) =>
             LET r == FirstPassBody(segments, i, DefaultMaxChars)
             IN Len(r.segments) - r.i < Len(segments) - i)
    /\ []((pc = "merge_pass" /\ i < Len(segments)) =>
             LET r == MergePassBody(segments, i, processed_segments, DefaultMaxChars)
             IN MergeRemaining(r.segments, r.i) < MergeRemaining(segments, i))
    /\ [](Remaining >= 0)
    /\ [][Phase' < Phase \/ (Phase' = Phase /\ Remaining' < Remaining)]_vars
\* the merge pass has met a cue of more than 2 lines, reinserted its overflow
\* and moved on, in a call where _format_subtitle_text called itself
C28_Witness ==
    /\ pc = "merge_pass"
    /\ i > 0
    /\ \E k \in 1..i : Count(segments[k], NL) > 1
    /\ \E k \in 1..Len(paragraphs) : \E keep_speaker \in BOOLEAN :
           /\ ~FitsOneLine(Strip(paragraphs[k]), DefaultMaxChars)
           /\ Recursion(Strip(paragraphs[k]), DefaultMaxChars, keep_speaker).some

\* the cue begins with a speaker tag: re.match(r'^([\w\s-]+):\s*', cue)
BeginsWithTag(cue) ==
    LET n == NamePrefixLen(cue)
    IN n >= 1 /\ n < Len(cue) /\ cue[n + 1] = ":"

\* C29: in the cues split_text returns, every cue directly followed by a cue
\* that begins with a speaker tag ends in sentence punctuation (one of
\* . ! ? ; :): a period has been appended to it where it did not.
C29_PeriodBeforeTaggedCue ==
    SplitTextDone =>
        \A k \in 1..(Len(result) - 1) :
            BeginsWithTag(result[k + 1]) => EndsWithPunct(Strip(result[k]))

\* the fields of a rendered H:M:S,m
MinutesField(s) == NatVal(SplitOn(s, ":")[2])
SecondsField(s) == NatVal(SplitOn(SplitOn(s, ":")[3], ",")[1])
MillisecondsField(s) == NatVal(SplitOn(SplitOn(s, ":")[3], ",")[2])

\* C30: for every non-negative time both timestamp formatters render the
\* minutes in 00-59, the seconds in 00-59 and the milliseconds in 000-999,
\* and the time rendered never exceeds the time given (a time just below a
\* whole minute is never rendered with a seconds field of 60).
C30_FieldsWithinRange ==
    FormatterDone =>
        /\ MinutesField(result) \in 0..59
        /\ SecondsField(result) \in 0..59
        /\ MillisecondsField(result) \in 0..999
        /\ SrtTimeMs(result) <= FloorMs(call.seconds)

====
